---- MODULE Spec2Model ----
(***************************************************************************)
(* RETE custodial token settlement layer.                                  *)
(*                                                                         *)
(* The ledger (server/storage.ts), the settlement routes                   *)
(* (server/routes.ts), the signing and gateway functions                   *)
(* (server/blockchain.ts) and the ReteToken contract                       *)
(* (contracts/ReteToken.sol) as one state machine.  A request is an        *)
(* asynchronous task: every await of a handler that touches the ledger or  *)
(* the chain is a step, and the steps of concurrent requests interleave.   *)
(*                                                                         *)
(* Amounts are whole tokens: parseAmount scales every amount by the same   *)
(* 10^decimals on both the signing and the submitting side.  Addresses are *)
(* named after the account that owns the wallet.  A chain transaction hash *)
(* is the position of the transaction in the chain's log; 0 is "no hash"   *)
(* (SQL NULL), and token address 0 is "no token" (SQL NULL).               *)
(***************************************************************************)
EXTENDS Integers, Sequences, FiniteSets, TLC

\* ------------------------------------------------------------ bounds
\* Number of requests the server receives after the initial state.
MaxRequests == 2
\* Largest amount of a request (distribute item, burn, transfer).
MaxAmount == 1
\* Longest distribute batch.
MaxBatch == 2
\* Number of tokens the factory may deploy.
MaxTokens == 2
\* Number of clock advances (the with-signature endpoints).
MaxTicks == 2
\* Number of signatures a client may hold (the with-signature endpoints).
MaxSigs == 2
\* Longest private key, in characters (the key vault).
MaxKeyLen == 2
\* Number of bytes of an initialization vector, scaled down (the key vault).
IvLength == 1
\* Number of bytes of a full authentication tag, scaled down (the key vault).
TagLength == 3
\* Number of characters of a stored record that may get changed.
MaxTampers == 1
\* Number of wallets that may be generated or imported after registration.
MaxWallets == 1
\* Number of rows that may be inserted into the transactions table directly.
MaxRows == 3
\* Largest amount of a peer transfer when the permit-based flows run alone.
MaxTransfer == 2
\* Number of rows created for the member while its browser is modelled.
MaxClientTxs == 2
\* Number of times the socket of the browser connects.
MaxConnects == 2

\* ------------------------------------------------------------ program constants
\* The authorization window in seconds.
Window == 3600

\* ------------------------------------------------------------ the accounts
Users == {"coord", "alice", "prov"}

Role(u) == CASE u = "coord" -> "coordinator" [] u = "alice" -> "user" [] OTHER -> "provider"

\* A coordinator registers with its community, a user joins the community
\* that invited it, a provider has none.
CommunityOf(u) == IF u \in {"coord", "alice"} THEN "c1" ELSE "none"

Communities == {"c1"}

\* getCommunityBalances lists the members in row order, then the providers.
UserOrder == <<"coord", "alice", "prov">>

\* Recipients a distribute item may name: the accounts and an unknown address.
Emails == Users \cup {"unknown"}

\* The products: p1 is linked to community c1, p2 to no community.
Products == {"p1", "p2"}

ProviderOf(p) == "prov"

Price(p) == IF p = "p1" THEN 1 ELSE 2

isProductAvailableInCommunity(p, c) == p = "p1" /\ c = "c1"

Tokens == 1..MaxTokens

\* The request slots: two requests may be in flight at a time.
Reqs == {"r1", "r2"}

VARIABLES
  balance,       \* users.tokenBalance
  tokenAddress,  \* communities.tokenAddress (0 = NULL)
  wallets,       \* the accounts that own a default wallet
  txs,           \* the transactions table, in insertion order; id = position
  req,           \* the requests in flight
  started,       \* number of requests received so far
  deployed,      \* number of tokens the factory has deployed
  tokenHistory,  \* per community: created, the tokens the factory deployed for it
                 \* since its token address was last cleared, and retired, the
                 \* addresses it had when its chain profile was switched
  mintNonces,    \* ReteToken.mintNonces, per token
  burnNonces,    \* ReteToken.burnNonces, per token
  permitNonces,  \* ERC20Permit.nonces, per token
  allowance,     \* allowance(owner, adminSpender), per token
  chainLog,      \* the confirmed chain transactions; hash = position
  now,           \* the clock, in seconds
  ticks,         \* number of clock advances so far
  sigPool,       \* signatures held by a client of the with-signature endpoints
  sreq,          \* the with-signature request in flight
  events,        \* the transaction events emitted so far
  sockets,       \* the realtime connections
  inbox,         \* what the realtime connections have received
  registered,    \* the accounts that exist
  client,        \* the browser of one member: its pending list and what is in flight to it
  vault,         \* a private key, its stored record and what decrypting it gave
  walletRows,    \* the wallets table, in insertion order; id = position
  wreq           \* the wallet requests in flight

vars == <<balance, tokenAddress, wallets, txs, req, started, deployed, tokenHistory, mintNonces, burnNonces,
          permitNonces, allowance, chainLog, now, ticks, sigPool, sreq, events, sockets, inbox,
          registered, client, vault, walletRows, wreq>>

\* The chain, the administrative tables and the with-signature endpoints.
chainVars == <<mintNonces, burnNonces, permitNonces, allowance, chainLog>>

adminVars == <<tokenAddress, wallets, deployed, tokenHistory>>

sigVars == <<now, ticks, sigPool, sreq>>

\* The realtime connections and the accounts table.
auxVars == <<sockets, inbox, registered, client>>

\* The key vault and the wallets table.
custodyVars == <<vault, walletRows, wreq>>

\* ------------------------------------------------------------ helpers
RECURSIVE SumSeq(_)
SumSeq(s) == IF s = <<>> THEN 0 ELSE Head(s) + SumSeq(Tail(s))

\* ------------------------------------------------------------ signatures
\* An EIP-712 signature is modelled by the key that made it and the typed
\* message it was made over.
NoSig == [key |-> "none", kind |-> "none", token |-> 0, signer |-> "none", party |-> "none", amount |-> 0, nonce |-> 0, deadline |-> 0, epoch |-> 0]

Digest(kind, t, signer, party, amount, nonce, deadline) == [kind |-> kind, token |-> t, signer |-> signer, party |-> party, amount |-> amount, nonce |-> nonce, deadline |-> deadline]

MessageOf(sig) == [kind |-> sig.kind, token |-> sig.token, signer |-> sig.signer, party |-> sig.party, amount |-> sig.amount, nonce |-> sig.nonce, deadline |-> sig.deadline]

\* ECDSA.recover: the signing key when the digest is the signed one, some
\* other address otherwise.
Recover(digest, sig) == IF MessageOf(sig) = digest THEN sig.key ELSE "garbage"

\* Number of confirmed chain transactions of one kind for one signer on one
\* token.
Consumed(kind, t, signer) == Cardinality({i \in 1..Len(chainLog) : chainLog[i].kind = kind /\ chainLog[i].token = t /\ chainLog[i].signer = signer})

\* ------------------------------------------------------------ the token contract
\* ERC20 balanceOf: what the confirmed mints, burns and transfers leave.
ChainBalance(t, a) == SumSeq([i \in 1..Len(chainLog) |-> IF chainLog[i].token # t THEN 0 ELSE (IF chainLog[i].kind \in {"mint", "transfer"} /\ chainLog[i].party = a THEN chainLog[i].amount ELSE 0) - (IF (chainLog[i].kind = "burn" /\ chainLog[i].party = a) \/ (chainLog[i].kind = "transfer" /\ chainLog[i].signer = a) THEN chainLog[i].amount ELSE 0)])

\* The factory is called with the coordinator's wallet as coordinatorOwner.
TokenOwner(t) == "coord"

\* A mintWithSig that takes the nonce from the signed message instead of its
\* own counter.
MintAcceptsSignedNonce(t, signer, to, amount, deadline, sig) ==
  /\ now <= deadline
  /\ signer = TokenOwner(t)
  /\ Recover(Digest("mint", t, signer, to, amount, sig.nonce, deadline), sig) = signer

\* ReteToken.mintWithSig: the requires that a call must pass.  The nonce in
\* the digest is the contract's counter, never a value the caller passes.
MintAccepts(t, signer, to, amount, deadline, sig) ==
  /\ now <= deadline
  /\ signer = TokenOwner(t)
  /\ Recover(Digest("mint", t, signer, to, amount, mintNonces[t][signer], deadline), sig) = signer

\* ReteToken.burnWithSig: the requires that a call must pass.
BurnAccepts(t, signer, from, amount, deadline, sig) ==
  /\ now <= deadline
  /\ signer = TokenOwner(t)
  /\ Recover(Digest("burn", t, signer, from, amount, burnNonces[t][signer], deadline), sig) = signer
  /\ ChainBalance(t, from) >= amount

\* ERC20Permit.permit as called by permitTransfer.
PermitAccepts(t, owner, spender, value, deadline, sig) ==
  /\ now <= deadline
  /\ Recover(Digest("permit", t, owner, spender, value, permitNonces[t][owner], deadline), sig) = owner

\* The entry a confirmed transaction leaves in the chain's log.
LogEntry(kind, t, signer, party, amount, nonce) == [kind |-> kind, token |-> t, signer |-> signer, party |-> party, amount |-> amount, nonce |-> nonce]

\* A confirmed mintWithSig: the counter moves on and the mint is logged.
MintWithSig(t, signer, to, amount) ==
  /\ mintNonces' = [mintNonces EXCEPT ![t][signer] = @ + 1]
  /\ chainLog' = Append(chainLog, LogEntry("mint", t, signer, to, amount, mintNonces[t][signer]))
  /\ UNCHANGED <<burnNonces, permitNonces, allowance>>

\* A confirmed burnWithSig.
BurnWithSig(t, signer, from, amount) ==
  /\ burnNonces' = [burnNonces EXCEPT ![t][signer] = @ + 1]
  /\ chainLog' = Append(chainLog, LogEntry("burn", t, signer, from, amount, burnNonces[t][signer]))
  /\ UNCHANGED <<mintNonces, permitNonces, allowance>>

\* A confirmed permit: the permit nonce is used and the allowance of the admin
\* spender is set to value.
Permit(t, owner, spender, value) ==
  /\ permitNonces' = [permitNonces EXCEPT ![t][owner] = @ + 1]
  /\ allowance' = [allowance EXCEPT ![t][owner] = value]
  /\ chainLog' = Append(chainLog, LogEntry("permit", t, owner, spender, value, permitNonces[t][owner]))
  /\ UNCHANGED <<mintNonces, burnNonces>>

\* transferFrom(owner, recipient, amount) by the admin spender passes when the
\* allowance and the owner's balance cover the amount.
TransferFromAccepts(t, owner, amount) == allowance[t][owner] >= amount /\ ChainBalance(t, owner) >= amount

\* A confirmed transferFrom: the allowance is spent.
TransferFrom(t, owner, recipient, amount) ==
  /\ allowance' = [allowance EXCEPT ![t][owner] = @ - amount]
  /\ chainLog' = Append(chainLog, LogEntry("transfer", t, owner, recipient, amount, 0))
  /\ UNCHANGED <<mintNonces, burnNonces, permitNonces>>

\* ------------------------------------------------------------ the signer
\* A signer that reserves nonces: it counts the signatures it has given out
\* and that are not yet submitted.
signMintAuthorizationReserving(key, to, amount, deadline, t) == [key |-> key, kind |-> "mint", token |-> t, signer |-> key, party |-> to, amount |-> amount, nonce |-> mintNonces[t][key] + Cardinality({q \in Reqs : req[q].sig.kind = "mint" /\ req[q].sig.token = t /\ req[q].sig.signer = key}), deadline |-> deadline, epoch |-> Consumed("mint", t, key)]

signMintAuthorization(key, to, amount, deadline, t) == [key |-> key, kind |-> "mint", token |-> t, signer |-> key, party |-> to, amount |-> amount, nonce |-> mintNonces[t][key], deadline |-> deadline, epoch |-> Consumed("mint", t, key)]

\* A signer that reads the burn nonce once, when the server starts, and
\* signs with that value ever after.
signBurnAuthorizationCached(key, from, amount, deadline, t) == [key |-> key, kind |-> "burn", token |-> t, signer |-> key, party |-> from, amount |-> amount, nonce |-> 0, deadline |-> deadline, epoch |-> Consumed("burn", t, key)]

\* blockchain.signBurnAuthorization: the nonce is read from the contract.
signBurnAuthorization(key, from, amount, deadline, t) == [key |-> key, kind |-> "burn", token |-> t, signer |-> key, party |-> from, amount |-> amount, nonce |-> burnNonces[t][key], deadline |-> deadline, epoch |-> Consumed("burn", t, key)]

signPermit(key, spender, amount, deadline, t) == [key |-> key, kind |-> "permit", token |-> t, signer |-> key, party |-> spender, amount |-> amount, nonce |-> permitNonces[t][key], deadline |-> deadline, epoch |-> Consumed("permit", t, key)]

\* ------------------------------------------------------------ storage
NewTx(type, amount, status, txHash, from, to, product, community) == [type |-> type, amount |-> amount, status |-> status, txHash |-> txHash, from |-> from, to |-> to, product |-> product, community |-> community]

\* An update that writes the amount instead of adding it.
updateUserBalanceOverwriting(bal, userId, amount) == [bal EXCEPT ![userId] = amount]

\* An SQL increment of one row: tokenBalance = tokenBalance + amount.
updateUserBalance(bal, userId, amount) == [bal EXCEPT ![userId] = @ + amount]

\* txHash 0 stands for an omitted argument: the hash column is then left alone.
updateTransactionStatus(T, id, status, txHash) == [i \in 1..Len(T) |-> IF i = id THEN [T[i] EXCEPT !.status = status, !.txHash = IF txHash # 0 THEN txHash ELSE @] ELSE T[i]]

TokenOf(c) == IF c = "none" THEN 0 ELSE tokenAddress[c]

\* Sum of the amounts of the rows of T that satisfy the three column tests.
PurchaseSum(T, c, p) == SumSeq([i \in 1..Len(T) |-> IF T[i].community = c /\ T[i].type = "purchase" /\ T[i].product # "none" /\ ProviderOf(T[i].product) = p THEN T[i].amount ELSE 0])

ProviderBurnSum(T, c, p) == SumSeq([i \in 1..Len(T) |-> IF T[i].community = c /\ T[i].type = "burn" /\ T[i].from = p /\ Role(p) = "provider" THEN T[i].amount ELSE 0])

HasSales(T, c, p) == \E i \in 1..Len(T) : T[i].community = c /\ T[i].type = "purchase" /\ T[i].product # "none" /\ ProviderOf(T[i].product) = p

\* The balance getCommunityBalances reports for account u of community c: the
\* cached column for a member, the derived one for a provider with sales.
ReportedBalance(bal, T, c, u) == IF CommunityOf(u) = c THEN bal[u] ELSE IF HasSales(T, c, u) THEN PurchaseSum(T, c, u) - ProviderBurnSum(T, c, u) ELSE 0

\* The first loop of getProviderBalancesByCommunity: every purchase row with a
\* community adds its amount and one sale to the entry of its community,
\* which is made when it is missing.  map is a Map from community ids.
RECURSIVE SumPurchases(_, _)
SumPurchases(rows, map) ==
  IF rows = <<>> THEN map
  ELSE LET tx == Head(rows)
           existing == IF tx.community \in DOMAIN map THEN map[tx.community] ELSE [balance |-> 0, salesCount |-> 0]
           entry == [balance |-> existing.balance + tx.amount, salesCount |-> existing.salesCount + 1]
       IN IF tx.community # "none"
          THEN SumPurchases(Tail(rows), [c \in DOMAIN map \cup {tx.community} |-> IF c = tx.community THEN entry ELSE map[c]])
          ELSE SumPurchases(Tail(rows), map)

\* The second loop: a burn row with a community is taken off the entry of its
\* community when there is one.
RECURSIVE SubtractBurns(_, _)
SubtractBurns(rows, map) ==
  IF rows = <<>> THEN map
  ELSE LET burn == Head(rows)
       IN IF burn.community # "none" /\ burn.community \in DOMAIN map
          THEN SubtractBurns(Tail(rows), [map EXCEPT ![burn.community].balance = @ - burn.amount])
          ELSE SubtractBurns(Tail(rows), map)

\* A report that counts the sales only and leaves the burns out.
getProviderSalesByCommunity(T, providerId) ==
  LET purchaseTransactions == SelectSeq(T, LAMBDA tx : tx.type = "purchase" /\ tx.product # "none" /\ ProviderOf(tx.product) = providerId)
      balanceMap == SumPurchases(purchaseTransactions, << >>)
  IN {[communityId |-> c, balance |-> balanceMap[c].balance, salesCount |-> balanceMap[c].salesCount] : c \in {k \in DOMAIN balanceMap : balanceMap[k].balance > 0}}

\* storage.getProviderBalancesByCommunity(providerId): the entries with a
\* positive balance.
getProviderBalancesByCommunity(T, providerId) ==
  LET purchaseTransactions == SelectSeq(T, LAMBDA tx : tx.type = "purchase" /\ tx.product # "none" /\ ProviderOf(tx.product) = providerId)
      burnTransactions == SelectSeq(T, LAMBDA tx : tx.type = "burn" /\ tx.from = providerId)
      balanceMap == SubtractBurns(burnTransactions, SumPurchases(purchaseTransactions, << >>))
  IN {[communityId |-> c, balance |-> balanceMap[c].balance, salesCount |-> balanceMap[c].salesCount] : c \in {k \in DOMAIN balanceMap : balanceMap[k].balance > 0}}

getCommunityBalances(bal, T, c) ==
  LET all == [i \in 1..Len(UserOrder) |-> [id |-> UserOrder[i], role |-> Role(UserOrder[i]), tokenBalance |-> ReportedBalance(bal, T, c, UserOrder[i])]]
      keep(b) == b.tokenBalance > 0 /\ (CommunityOf(b.id) = c \/ HasSales(T, c, b.id))
  IN SelectSeq(all, keep)

\* emitTransactionUpdate and emitTransactionToCommunity with an event of one
\* type about one transaction.
emitTransactionUpdate(type, id) == events' = events \cup {[type |-> type, txid |-> id]}

\* ------------------------------------------------------------ requests
NoEff == [created |-> FALSE, balance |-> FALSE, chain |-> FALSE]

\* A free request slot.  eff records what the request has done so far: created
\* a transaction row, written a balance, submitted a chain write; nonces are
\* the nonces a batch has signed, item after item.
IdleReq == [nonces |-> <<>>, kind |-> "none", pc |-> "idle", caller |-> "none", reason |-> "none", tok |-> 0, n |-> 0, idx |-> 0, snap |-> <<>>, email |-> "none", target |-> "none", amount |-> 0, send |-> 0, product |-> "none", txid |-> 0, sig |-> NoSig, hash |-> 0, results |-> <<>>, errors |-> <<>>, totalBurned |-> 0, usersAffected |-> 0, eff |-> NoEff]

\* Math.floor(Date.now() / 1000) + 3600.
Deadline == now + Window

\* The answer of a handler is sent in the turn of the event loop that ends
\* the handler: no other handler runs while an answer is waiting.
Answered == \A q \in Reqs : req[q].pc \notin {"done", "rejected", "failed"}

\* A request arrives; it takes the first free slot.
Arrives(r) ==
  /\ Answered
  /\ req[r].pc = "idle"
  /\ r = "r2" => req["r1"].pc # "idle"
  /\ started < MaxRequests
  /\ started' = started + 1

\* The state of a request after the checks of its handler: rejected with the
\* first reason that applies, or going on at pc next.  tok is the token
\* address of community c as the handler read it.
Started(kind, u, c, reason, next) == [IdleReq EXCEPT !.kind = kind, !.caller = u, !.tok = TokenOf(c), !.reason = reason, !.pc = IF reason = "ok" THEN next ELSE "rejected"]

\* Request r is of the kind and at the pc named.
At(r, kind, pc) == Answered /\ req[r].kind = kind /\ req[r].pc = pc

\* The response has been sent: the slot is free for the next request.
Respond(r) ==
  /\ req[r].pc \in {"done", "rejected", "failed"}
  /\ req' = [req EXCEPT ![r] = IdleReq]
  /\ UNCHANGED <<balance, txs, started, adminVars, chainVars, sigVars, events, auxVars, custodyVars>>

\* ------------------------------------------------------------ POST /api/tokens/distribute
DistributeReject(u, bodyOk) ==
  IF Role(u) # "coordinator" THEN "role"
  ELSE IF CommunityOf(u) = "none" THEN "community"
  ELSE IF TokenOf(CommunityOf(u)) = 0 THEN "token"
  ELSE IF u \notin wallets THEN "wallet"
  ELSE IF ~bodyOk THEN "body"
  ELSE "ok"

\* The checks before the loop.  bodyOk is whether the body passes
\* distributeTokensSchema; n is the length of the batch.
DistributeStart(r, u, n, bodyOk) ==
  /\ Arrives(r)
  /\ req' = [req EXCEPT ![r] = [Started("distribute", u, CommunityOf(u), DistributeReject(u, bodyOk), "loop") EXCEPT !.n = IF DistributeReject(u, bodyOk) = "ok" THEN n ELSE 0]]
  /\ UNCHANGED <<balance, txs, adminVars, chainVars, sigVars, events, auxVars, custodyVars>>

\* An iteration that creates the pending row without telling anyone.
DistributeItemSilent(r, email, amount) ==
  /\ At(r, "distribute", "loop") /\ req[r].idx < req[r].n
  /\ IF email \notin Users \/ CommunityOf(email) # CommunityOf(req[r].caller)
     THEN /\ req' = [req EXCEPT ![r].errors = Append(@, [item |-> req[r].idx + 1, email |-> email, reason |-> IF email \notin Users THEN "notfound" ELSE "community"]), ![r].idx = @ + 1]
          /\ UNCHANGED txs
     ELSE /\ txs' = Append(txs, NewTx("receive", amount, "pending", 0, req[r].caller, email, "none", CommunityOf(req[r].caller)))
          /\ req' = [req EXCEPT ![r].email = email, ![r].target = email, ![r].amount = amount, ![r].txid = Len(txs) + 1, ![r].pc = "sign", ![r].eff.created = TRUE]
  /\ UNCHANGED <<balance, started, adminVars, chainVars, sigVars, events, auxVars, custodyVars>>

\* The head of one iteration: the recipient is looked up, and the pending row
\* is created for a member of the coordinator's community.  The batch is an
\* input of the request; its element idx+1 is drawn when the loop reaches it.
DistributeItem(r, email, amount) ==
  /\ At(r, "distribute", "loop") /\ req[r].idx < req[r].n
  /\ IF email \notin Users
     THEN /\ req' = [req EXCEPT ![r].errors = Append(@, [item |-> req[r].idx + 1, email |-> email, reason |-> "notfound"]), ![r].idx = @ + 1]
          /\ UNCHANGED <<txs, events>>
     ELSE IF CommunityOf(email) # CommunityOf(req[r].caller)
     THEN /\ req' = [req EXCEPT ![r].errors = Append(@, [item |-> req[r].idx + 1, email |-> email, reason |-> "community"]), ![r].idx = @ + 1]
          /\ UNCHANGED <<txs, events>>
     ELSE /\ emitTransactionUpdate("created", Len(txs) + 1)
          /\ txs' = Append(txs, NewTx("receive", amount, "pending", 0, req[r].caller, email, "none", CommunityOf(req[r].caller)))
          /\ req' = [req EXCEPT ![r].email = email, ![r].target = email, ![r].amount = amount, ![r].txid = Len(txs) + 1, ![r].pc = "sign", ![r].eff.created = TRUE]
  /\ UNCHANGED <<balance, started, adminVars, chainVars, sigVars, auxVars, custodyVars>>

\* signMintAuthorization with the coordinator's key: the nonce is read here.
DistributeSign(r) ==
  /\ At(r, "distribute", "sign")
  /\ req' = [req EXCEPT ![r].sig = signMintAuthorization(req[r].caller, req[r].target, req[r].amount, Deadline, req[r].tok), ![r].nonces = Append(@, mintNonces[req[r].tok][req[r].caller]), ![r].pc = "submit"]
  /\ UNCHANGED <<balance, txs, started, adminVars, chainVars, sigVars, events, auxVars, custodyVars>>

\* mintWithSignature confirmed.
DistributeMintOk(r) ==
  /\ At(r, "distribute", "submit")
  /\ MintAccepts(req[r].tok, req[r].caller, req[r].target, req[r].amount, req[r].sig.deadline, req[r].sig)
  /\ MintWithSig(req[r].tok, req[r].caller, req[r].target, req[r].amount)
  /\ req' = [req EXCEPT ![r].hash = Len(chainLog) + 1, ![r].sig = NoSig, ![r].pc = "credit", ![r].eff.chain = TRUE]
  /\ UNCHANGED <<balance, txs, started, adminVars, sigVars, events, auxVars, custodyVars>>

\* A loop without the catch of the iteration: the first chain failure ends the
\* request.
DistributeMintFailAborting(r) ==
  /\ At(r, "distribute", "submit")
  /\ req' = [req EXCEPT ![r].sig = NoSig, ![r].pc = "failed", ![r].eff.chain = TRUE]
  /\ UNCHANGED <<balance, txs, started, adminVars, chainVars, sigVars, events, auxVars, custodyVars>>

\* A catch that signs and submits the item again.
DistributeMintFailRetrying(r) ==
  /\ At(r, "distribute", "submit")
  /\ req' = [req EXCEPT ![r].sig = NoSig, ![r].pc = "sign", ![r].eff.chain = TRUE]
  /\ UNCHANGED <<balance, txs, started, adminVars, chainVars, sigVars, events, auxVars, custodyVars>>

\* mintWithSignature throws (a revert, an RPC failure): the catch of the
\* iteration records the error and the loop goes on.
DistributeMintFail(r) ==
  /\ At(r, "distribute", "submit")
  /\ req' = [req EXCEPT ![r].errors = Append(@, [item |-> req[r].idx + 1, email |-> req[r].email, reason |-> "chain"]), ![r].idx = @ + 1, ![r].sig = NoSig, ![r].pc = "loop", ![r].eff.chain = TRUE]
  /\ UNCHANGED <<balance, txs, started, adminVars, chainVars, sigVars, events, auxVars, custodyVars>>

\* storage.updateUserBalance(targetUser.id, dist.amount).
DistributeCredit(r) ==
  /\ At(r, "distribute", "credit")
  /\ balance' = updateUserBalance(balance, req[r].target, req[r].amount)
  /\ req' = [req EXCEPT ![r].pc = "complete", ![r].eff.balance = TRUE]
  /\ UNCHANGED <<txs, started, adminVars, chainVars, sigVars, events, auxVars, custodyVars>>

\* storage.updateTransactionStatus(id, "completed", mintResult.tx) and the
\* entry of the distributed list.
DistributeComplete(r) ==
  /\ At(r, "distribute", "complete")
  /\ txs' = updateTransactionStatus(txs, req[r].txid, "completed", req[r].hash)
  /\ emitTransactionUpdate("completed", req[r].txid)
  /\ req' = [req EXCEPT ![r].results = Append(@, [item |-> req[r].idx + 1, email |-> req[r].email, amount |-> req[r].amount, txHash |-> req[r].hash, txid |-> req[r].txid]), ![r].idx = @ + 1, ![r].pc = "loop"]
  /\ UNCHANGED <<balance, started, adminVars, chainVars, sigVars, auxVars, custodyVars>>

\* res.json({ distributed, errors }).
DistributeFinish(r) ==
  /\ At(r, "distribute", "loop") /\ req[r].idx = req[r].n
  /\ req' = [req EXCEPT ![r].pc = "done"]
  /\ UNCHANGED <<balance, txs, started, adminVars, chainVars, sigVars, events, auxVars, custodyVars>>

\* ------------------------------------------------------------ POST /api/tokens/burn
\* target is the targetUserId of the body: "self" when it is absent.
BurnReject(u, amount, target) ==
  IF Role(u) # "coordinator" THEN "role"
  ELSE IF amount <= 0 THEN "amount"
  ELSE IF CommunityOf(u) = "none" THEN "community"
  ELSE IF TokenOf(CommunityOf(u)) = 0 THEN "token"
  ELSE IF u \notin wallets THEN "wallet"
  ELSE IF target # "self" /\ (target \notin Users \/ CommunityOf(target) # CommunityOf(u)) THEN "target"
  ELSE "ok"

\* A handler that creates the pending row before it checks the request.
BurnStartRecordingFirst(r, u, amount, target) ==
  /\ Arrives(r)
  /\ txs' = Append(txs, NewTx("burn", amount, "pending", 0, IF target = "self" THEN u ELSE target, "none", "none", CommunityOf(u)))
  /\ emitTransactionUpdate("created", Len(txs) + 1)
  /\ req' = [req EXCEPT ![r] = [Started("burn", u, CommunityOf(u), BurnReject(u, amount, target), "sign") EXCEPT !.target = IF target = "self" THEN u ELSE target, !.amount = amount, !.txid = Len(txs) + 1, !.eff.created = TRUE]]
  /\ UNCHANGED <<balance, adminVars, chainVars, sigVars, auxVars, custodyVars>>

\* The checks and, when they pass, the pending row.
BurnStart(r, u, amount, target) ==
  /\ Arrives(r)
  /\ LET reason == BurnReject(u, amount, target)
         burnFromUser == IF target = "self" THEN u ELSE target
     IN IF reason # "ok"
        THEN /\ req' = [req EXCEPT ![r] = Started("burn", u, CommunityOf(u), reason, "sign")]
             /\ UNCHANGED <<txs, events>>
        ELSE /\ emitTransactionUpdate("created", Len(txs) + 1)
             /\ txs' = Append(txs, NewTx("burn", amount, "pending", 0, burnFromUser, "none", "none", CommunityOf(u)))
             /\ req' = [req EXCEPT ![r] = [Started("burn", u, CommunityOf(u), reason, "sign") EXCEPT !.target = burnFromUser, !.amount = amount, !.txid = Len(txs) + 1, !.eff.created = TRUE]]
  /\ UNCHANGED <<balance, adminVars, chainVars, sigVars, auxVars, custodyVars>>

\* signBurnAuthorization with the coordinator's key.
BurnSign(r) ==
  /\ At(r, "burn", "sign")
  /\ req' = [req EXCEPT ![r].sig = signBurnAuthorization(req[r].caller, req[r].target, req[r].amount, Deadline, req[r].tok), ![r].pc = "submit"]
  /\ UNCHANGED <<balance, txs, started, adminVars, chainVars, sigVars, events, auxVars, custodyVars>>

\* burnWithSignature confirmed.
BurnOk(r) ==
  /\ At(r, "burn", "submit")
  /\ BurnAccepts(req[r].tok, req[r].caller, req[r].target, req[r].amount, req[r].sig.deadline, req[r].sig)
  /\ BurnWithSig(req[r].tok, req[r].caller, req[r].target, req[r].amount)
  /\ req' = [req EXCEPT ![r].hash = Len(chainLog) + 1, ![r].sig = NoSig, ![r].pc = "debit", ![r].eff.chain = TRUE]
  /\ UNCHANGED <<balance, txs, started, adminVars, sigVars, events, auxVars, custodyVars>>

\* A handler that marks the row failed when the chain call throws.
BurnFailMarking(r) ==
  /\ At(r, "burn", "submit")
  /\ txs' = updateTransactionStatus(txs, req[r].txid, "failed", 0)
  /\ req' = [req EXCEPT ![r].sig = NoSig, ![r].pc = "failed", ![r].eff.chain = TRUE]
  /\ UNCHANGED <<balance, started, adminVars, chainVars, sigVars, events, auxVars, custodyVars>>

\* burnWithSignature throws: the handler answers 500 and the row stays as it
\* is.
BurnFail(r) ==
  /\ At(r, "burn", "submit")
  /\ req' = [req EXCEPT ![r].sig = NoSig, ![r].pc = "failed", ![r].eff.chain = TRUE]
  /\ UNCHANGED <<balance, txs, started, adminVars, chainVars, sigVars, events, auxVars, custodyVars>>

\* storage.updateUserBalance(burnFromUser.id, -amount).
BurnDebit(r) ==
  /\ At(r, "burn", "debit")
  /\ balance' = updateUserBalance(balance, req[r].target, -req[r].amount)
  /\ req' = [req EXCEPT ![r].pc = "complete", ![r].eff.balance = TRUE]
  /\ UNCHANGED <<txs, started, adminVars, chainVars, sigVars, events, auxVars, custodyVars>>

\* storage.updateTransactionStatus(id, "completed", burnResult.tx).
BurnComplete(r) ==
  /\ At(r, "burn", "complete")
  /\ txs' = updateTransactionStatus(txs, req[r].txid, "completed", req[r].hash)
  /\ emitTransactionUpdate("completed", req[r].txid)
  /\ req' = [req EXCEPT ![r].pc = "done"]
  /\ UNCHANGED <<balance, started, adminVars, chainVars, sigVars, auxVars, custodyVars>>

\* ------------------------------------------------------------ POST /api/tokens/burn-all
BurnAllReject(u) ==
  IF Role(u) # "coordinator" THEN "role"
  ELSE IF CommunityOf(u) = "none" THEN "community"
  ELSE IF TokenOf(CommunityOf(u)) = 0 THEN "token"
  ELSE IF u \notin wallets THEN "wallet"
  ELSE "ok"

\* The checks and the read of the balances the loop will run over.
BurnAllStart(r, u) ==
  /\ Arrives(r)
  /\ req' = [req EXCEPT ![r] = [Started("burnall", u, CommunityOf(u), BurnAllReject(u), "loop") EXCEPT !.snap = IF BurnAllReject(u) = "ok" THEN getCommunityBalances(balance, txs, CommunityOf(u)) ELSE <<>>]]
  /\ UNCHANGED <<balance, txs, adminVars, chainVars, sigVars, events, auxVars, custodyVars>>

\* The head of one iteration: the pending row of the holder.
BurnAllItem(r) ==
  /\ At(r, "burnall", "loop") /\ req[r].idx < Len(req[r].snap)
  /\ LET b == req[r].snap[req[r].idx + 1]
     IN IF b.tokenBalance > 0
        THEN /\ emitTransactionUpdate("created", Len(txs) + 1)
             /\ txs' = Append(txs, NewTx("burn", b.tokenBalance, "pending", 0, b.id, req[r].caller, "none", CommunityOf(req[r].caller)))
             /\ req' = [req EXCEPT ![r].target = b.id, ![r].amount = b.tokenBalance, ![r].txid = Len(txs) + 1, ![r].pc = "sign", ![r].eff.created = TRUE]
        ELSE /\ req' = [req EXCEPT ![r].idx = @ + 1]
             /\ UNCHANGED <<txs, events>>
  /\ UNCHANGED <<balance, started, adminVars, chainVars, sigVars, auxVars, custodyVars>>

BurnAllSign(r) ==
  /\ At(r, "burnall", "sign")
  /\ req' = [req EXCEPT ![r].sig = signBurnAuthorization(req[r].caller, req[r].target, req[r].amount, Deadline, req[r].tok), ![r].nonces = Append(@, burnNonces[req[r].tok][req[r].caller]), ![r].pc = "submit"]
  /\ UNCHANGED <<balance, txs, started, adminVars, chainVars, sigVars, events, auxVars, custodyVars>>

BurnAllOk(r) ==
  /\ At(r, "burnall", "submit")
  /\ BurnAccepts(req[r].tok, req[r].caller, req[r].target, req[r].amount, req[r].sig.deadline, req[r].sig)
  /\ BurnWithSig(req[r].tok, req[r].caller, req[r].target, req[r].amount)
  /\ req' = [req EXCEPT ![r].hash = Len(chainLog) + 1, ![r].sig = NoSig, ![r].pc = "debit", ![r].eff.chain = TRUE]
  /\ UNCHANGED <<balance, txs, started, adminVars, sigVars, events, auxVars, custodyVars>>

\* A loop that counts the holder before the chain call is confirmed.
BurnAllFailCounting(r) ==
  /\ At(r, "burnall", "submit")
  /\ req' = [req EXCEPT ![r].errors = Append(@, [item |-> req[r].idx + 1, email |-> req[r].target, reason |-> "chain"]), ![r].totalBurned = @ + req[r].amount, ![r].usersAffected = @ + 1, ![r].idx = @ + 1, ![r].sig = NoSig, ![r].pc = "loop", ![r].eff.chain = TRUE]
  /\ UNCHANGED <<balance, txs, started, adminVars, chainVars, sigVars, events, auxVars, custodyVars>>

\* The catch of the iteration: the holder goes to errors and the loop goes on.
BurnAllFail(r) ==
  /\ At(r, "burnall", "submit")
  /\ req' = [req EXCEPT ![r].errors = Append(@, [item |-> req[r].idx + 1, email |-> req[r].target, reason |-> "chain"]), ![r].idx = @ + 1, ![r].sig = NoSig, ![r].pc = "loop", ![r].eff.chain = TRUE]
  /\ UNCHANGED <<balance, txs, started, adminVars, chainVars, sigVars, events, auxVars, custodyVars>>

\* if (balance.role !== "provider") updateUserBalance(balance.id,
\* -balance.tokenBalance): the amount is the one read before the loop.
BurnAllDebit(r) ==
  /\ At(r, "burnall", "debit")
  /\ IF Role(req[r].target) # "provider"
     THEN /\ balance' = updateUserBalance(balance, req[r].target, -req[r].amount)
          /\ req' = [req EXCEPT ![r].pc = "complete", ![r].eff.balance = TRUE]
     ELSE /\ req' = [req EXCEPT ![r].pc = "complete"]
          /\ UNCHANGED balance
  /\ UNCHANGED <<txs, started, adminVars, chainVars, sigVars, events, auxVars, custodyVars>>

\* The row is completed with the burn's hash and the totals move on.
BurnAllComplete(r) ==
  /\ At(r, "burnall", "complete")
  /\ txs' = updateTransactionStatus(txs, req[r].txid, "completed", req[r].hash)
  /\ emitTransactionUpdate("completed", req[r].txid)
  /\ req' = [req EXCEPT ![r].results = Append(@, [item |-> req[r].idx + 1, email |-> req[r].target, amount |-> req[r].amount, txHash |-> req[r].hash, txid |-> req[r].txid]), ![r].totalBurned = @ + req[r].amount, ![r].usersAffected = @ + 1, ![r].idx = @ + 1, ![r].pc = "loop"]
  /\ UNCHANGED <<balance, started, adminVars, chainVars, sigVars, auxVars, custodyVars>>

\* res.json({ totalBurned, usersAffected, results, errors }).
BurnAllFinish(r) ==
  /\ At(r, "burnall", "loop") /\ req[r].idx = Len(req[r].snap)
  /\ req' = [req EXCEPT ![r].pc = "done"]
  /\ UNCHANGED <<balance, txs, started, adminVars, chainVars, sigVars, events, auxVars, custodyVars>>

\* ------------------------------------------------------------ permitTransfer
\* The steps of blockchain.permitTransfer for a transfer or a purchase in
\* flight: owner is the caller, the permit is for the requested amount.
InPermitTransfer(r, pc) == Answered /\ req[r].kind \in {"transfer", "purchase"} /\ req[r].pc = pc

\* token.permit confirmed.
PermitOk(r) ==
  /\ InPermitTransfer(r, "permit")
  /\ PermitAccepts(req[r].tok, req[r].caller, "admin", req[r].amount, req[r].sig.deadline, req[r].sig)
  /\ Permit(req[r].tok, req[r].caller, "admin", req[r].amount)
  /\ req' = [req EXCEPT ![r].sig = NoSig, ![r].pc = "allowance", ![r].eff.chain = TRUE]
  /\ UNCHANGED <<balance, txs, started, adminVars, sigVars, events, auxVars, custodyVars>>

\* token.permit throws.
PermitFail(r) ==
  /\ InPermitTransfer(r, "permit")
  /\ req' = [req EXCEPT ![r].sig = NoSig, ![r].pc = "failed", ![r].eff.chain = TRUE]
  /\ UNCHANGED <<balance, txs, started, adminVars, chainVars, sigVars, events, auxVars, custodyVars>>

\* token.allowance is read: zero throws, otherwise the amount to send is the
\* smaller of the requested amount and the allowance.
AllowanceRead(r) ==
  /\ InPermitTransfer(r, "allowance")
  /\ LET a == allowance[req[r].tok][req[r].caller]
     IN req' = [req EXCEPT ![r].send = IF req[r].amount <= a THEN req[r].amount ELSE a, ![r].pc = IF a = 0 THEN "failed" ELSE "transferFrom"]
  /\ UNCHANGED <<balance, txs, started, adminVars, chainVars, sigVars, events, auxVars, custodyVars>>

\* token.transferFrom confirmed.
TransferFromOk(r) ==
  /\ InPermitTransfer(r, "transferFrom")
  /\ TransferFromAccepts(req[r].tok, req[r].caller, req[r].send)
  /\ TransferFrom(req[r].tok, req[r].caller, req[r].target, req[r].send)
  /\ req' = [req EXCEPT ![r].hash = Len(chainLog) + 1, ![r].pc = "debit"]
  /\ UNCHANGED <<balance, txs, started, adminVars, sigVars, events, auxVars, custodyVars>>

\* A handler that has debited the sender before the transfer is confirmed.
TransferFromFailDebited(r) ==
  /\ InPermitTransfer(r, "transferFrom")
  /\ balance' = updateUserBalance(balance, req[r].caller, -req[r].amount)
  /\ req' = [req EXCEPT ![r].pc = "failed"]
  /\ UNCHANGED <<txs, started, adminVars, chainVars, sigVars, events, auxVars, custodyVars>>

\* token.transferFrom throws.
TransferFromFail(r) ==
  /\ InPermitTransfer(r, "transferFrom")
  /\ req' = [req EXCEPT ![r].pc = "failed"]
  /\ UNCHANGED <<balance, txs, started, adminVars, chainVars, sigVars, events, auxVars, custodyVars>>

\* ------------------------------------------------------------ POST /api/tokens/transfer
\* The community whose token is moved: the sender's, else the recipient's.
TransferCommunity(u, recipient) == IF CommunityOf(u) # "none" THEN CommunityOf(u) ELSE CommunityOf(recipient)

\* Checks that leave out the token of the community.
TransferRejectWithoutToken(u, recipient, amount) ==
  IF recipient = "none" \/ amount <= 0 THEN "body"
  ELSE IF balance[u] < amount THEN "balance"
  ELSE IF recipient \notin Users THEN "recipient"
  ELSE IF CommunityOf(u) # "none" /\ CommunityOf(recipient) # "none" /\ CommunityOf(u) # CommunityOf(recipient) THEN "cross"
  ELSE IF TransferCommunity(u, recipient) = "none" THEN "community"
  ELSE IF u \notin wallets THEN "wallet"
  ELSE "ok"

\* recipient "none" is a body without recipientId.
TransferReject(u, recipient, amount) ==
  IF recipient = "none" \/ amount <= 0 THEN "body"
  ELSE IF balance[u] < amount THEN "balance"
  ELSE IF recipient \notin Users THEN "recipient"
  ELSE IF CommunityOf(u) # "none" /\ CommunityOf(recipient) # "none" /\ CommunityOf(u) # CommunityOf(recipient) THEN "cross"
  ELSE IF TransferCommunity(u, recipient) = "none" THEN "community"
  ELSE IF TokenOf(TransferCommunity(u, recipient)) = 0 THEN "token"
  ELSE IF u \notin wallets THEN "wallet"
  ELSE "ok"

TransferStart(r, u, recipient, amount) ==
  /\ Arrives(r)
  /\ LET reason == TransferReject(u, recipient, amount)
         c == IF recipient \in Users THEN TransferCommunity(u, recipient) ELSE CommunityOf(u)
     IN req' = [req EXCEPT ![r] = IF reason = "ok" THEN [Started("transfer", u, c, reason, "sign") EXCEPT !.target = recipient, !.amount = amount] ELSE Started("transfer", u, c, reason, "sign")]
  /\ UNCHANGED <<balance, txs, adminVars, chainVars, sigVars, events, auxVars, custodyVars>>

\* signPermit with the sender's key.
TransferSign(r) ==
  /\ At(r, "transfer", "sign")
  /\ req' = [req EXCEPT ![r].sig = signPermit(req[r].caller, "admin", req[r].amount, Deadline, req[r].tok), ![r].pc = "permit"]
  /\ UNCHANGED <<balance, txs, started, adminVars, chainVars, sigVars, events, auxVars, custodyVars>>

\* storage.updateUserBalance(sender.id, -amount).
TransferDebit(r) ==
  /\ At(r, "transfer", "debit")
  /\ balance' = updateUserBalance(balance, req[r].caller, -req[r].amount)
  /\ req' = [req EXCEPT ![r].pc = "credit", ![r].eff.balance = TRUE]
  /\ UNCHANGED <<txs, started, adminVars, chainVars, sigVars, events, auxVars, custodyVars>>

\* storage.updateUserBalance(recipient.id, amount).
TransferCredit(r) ==
  /\ At(r, "transfer", "credit")
  /\ balance' = updateUserBalance(balance, req[r].target, req[r].amount)
  /\ req' = [req EXCEPT ![r].pc = "record"]
  /\ UNCHANGED <<txs, started, adminVars, chainVars, sigVars, events, auxVars, custodyVars>>

\* The row of a transfer is created completed, with the transfer's hash.
TransferRecord(r) ==
  /\ At(r, "transfer", "record")
  /\ txs' = Append(txs, NewTx("send", req[r].amount, "completed", req[r].hash, req[r].caller, req[r].target, "none", TransferCommunity(req[r].caller, req[r].target)))
  /\ emitTransactionUpdate("completed", Len(txs) + 1)
  /\ req' = [req EXCEPT ![r].txid = Len(txs) + 1, ![r].pc = "done", ![r].eff.created = TRUE]
  /\ UNCHANGED <<balance, started, adminVars, chainVars, sigVars, auxVars, custodyVars>>

\* ------------------------------------------------------------ POST /api/purchase
\* Checks that leave out the link between the product and the community.
PurchaseRejectUnscoped(u, p) ==
  IF p = "none" THEN "body"
  ELSE IF p \notin Products THEN "product"
  ELSE IF balance[u] < Price(p) THEN "balance"
  ELSE IF ProviderOf(p) \notin Users THEN "provider"
  ELSE IF CommunityOf(u) = "none" THEN "community"
  ELSE IF TokenOf(CommunityOf(u)) = 0 THEN "token"
  ELSE IF u \notin wallets THEN "wallet"
  ELSE IF ProviderOf(p) \notin wallets THEN "providerwallet"
  ELSE "ok"

\* product "none" is a body that purchaseSchema rejects, "p0" an id of no
\* product.
PurchaseReject(u, p) ==
  IF p = "none" THEN "body"
  ELSE IF p \notin Products THEN "product"
  ELSE IF balance[u] < Price(p) THEN "balance"
  ELSE IF ProviderOf(p) \notin Users THEN "provider"
  ELSE IF CommunityOf(u) = "none" THEN "community"
  ELSE IF ~isProductAvailableInCommunity(p, CommunityOf(u)) THEN "available"
  ELSE IF TokenOf(CommunityOf(u)) = 0 THEN "token"
  ELSE IF u \notin wallets THEN "wallet"
  ELSE IF ProviderOf(p) \notin wallets THEN "providerwallet"
  ELSE "ok"

\* The checks and, when they pass, the pending row.
PurchaseStart(r, u, p) ==
  /\ Arrives(r)
  /\ LET reason == PurchaseReject(u, p)
     IN IF reason # "ok"
        THEN /\ req' = [req EXCEPT ![r] = Started("purchase", u, CommunityOf(u), reason, "sign")]
             /\ UNCHANGED <<txs, events>>
        ELSE /\ emitTransactionUpdate("created", Len(txs) + 1)
             /\ txs' = Append(txs, NewTx("purchase", Price(p), "pending", 0, u, ProviderOf(p), p, CommunityOf(u)))
             /\ req' = [req EXCEPT ![r] = [Started("purchase", u, CommunityOf(u), reason, "sign") EXCEPT !.target = ProviderOf(p), !.amount = Price(p), !.product = p, !.txid = Len(txs) + 1, !.eff.created = TRUE]]
  /\ UNCHANGED <<balance, adminVars, chainVars, sigVars, auxVars, custodyVars>>

\* signPermit with the buyer's key.
PurchaseSign(r) ==
  /\ At(r, "purchase", "sign")
  /\ req' = [req EXCEPT ![r].sig = signPermit(req[r].caller, "admin", req[r].amount, Deadline, req[r].tok), ![r].pc = "permit"]
  /\ UNCHANGED <<balance, txs, started, adminVars, chainVars, sigVars, events, auxVars, custodyVars>>

\* storage.updateUserBalance(buyer.id, -product.price).
PurchaseDebit(r) ==
  /\ At(r, "purchase", "debit")
  /\ balance' = updateUserBalance(balance, req[r].caller, -req[r].amount)
  /\ req' = [req EXCEPT ![r].pc = "credit", ![r].eff.balance = TRUE]
  /\ UNCHANGED <<txs, started, adminVars, chainVars, sigVars, events, auxVars, custodyVars>>

\* storage.updateUserBalance(provider.id, product.price).
PurchaseCredit(r) ==
  /\ At(r, "purchase", "credit")
  /\ balance' = updateUserBalance(balance, req[r].target, req[r].amount)
  /\ req' = [req EXCEPT ![r].pc = "complete"]
  /\ UNCHANGED <<txs, started, adminVars, chainVars, sigVars, events, auxVars, custodyVars>>

\* storage.updateTransactionStatus(id, "completed", transferResult.transferTx).
PurchaseComplete(r) ==
  /\ At(r, "purchase", "complete")
  /\ txs' = updateTransactionStatus(txs, req[r].txid, "completed", req[r].hash)
  /\ emitTransactionUpdate("completed", req[r].txid)
  /\ req' = [req EXCEPT ![r].pc = "done"]
  /\ UNCHANGED <<balance, started, adminVars, chainVars, sigVars, auxVars, custodyVars>>

\* ------------------------------------------------------------ POST /api/blockchain/factory/create-token
CreateTokenReject(u) ==
  IF Role(u) # "coordinator" THEN "role"
  ELSE IF CommunityOf(u) = "none" THEN "community"
  ELSE IF TokenOf(CommunityOf(u)) # 0 THEN "token"
  ELSE IF u \notin wallets THEN "wallet"
  ELSE "ok"

CreateTokenStart(r, u) ==
  /\ Arrives(r)
  /\ req' = [req EXCEPT ![r] = Started("createtoken", u, CommunityOf(u), CreateTokenReject(u), "deploy")]
  /\ UNCHANGED <<balance, txs, adminVars, chainVars, sigVars, events, auxVars, custodyVars>>

\* factory.createReteToken confirmed: a new token contract exists.
CreateTokenDeployed(r) ==
  /\ At(r, "createtoken", "deploy")
  /\ deployed < MaxTokens
  /\ deployed' = deployed + 1
  /\ tokenHistory' = [tokenHistory EXCEPT ![CommunityOf(req[r].caller)].created = @ + 1]
  /\ req' = [req EXCEPT ![r].hash = deployed + 1, ![r].pc = "store"]
  /\ UNCHANGED <<balance, txs, started, tokenAddress, wallets, chainVars, sigVars, events, auxVars, custodyVars>>

\* factory.createReteToken confirmed, and no log of the receipt parses as
\* ReteTokenCreated: createReteToken returns token null (0 here).
CreateTokenNoEvent(r) ==
  /\ At(r, "createtoken", "deploy")
  /\ req' = [req EXCEPT ![r].hash = 0, ![r].pc = "store"]
  /\ UNCHANGED <<balance, txs, started, adminVars, chainVars, sigVars, events, auxVars, custodyVars>>

\* factory.createReteToken throws.
CreateTokenFail(r) ==
  /\ At(r, "createtoken", "deploy")
  /\ req' = [req EXCEPT ![r].pc = "failed"]
  /\ UNCHANGED <<balance, txs, started, adminVars, chainVars, sigVars, events, auxVars, custodyVars>>

\* if (result.token) storage.updateCommunityTokenAddress(user.communityId,
\* result.token); then res.json(result), whatever result.token is.
CreateTokenStore(r) ==
  /\ At(r, "createtoken", "store")
  /\ tokenAddress' = IF req[r].hash # 0 THEN [tokenAddress EXCEPT ![CommunityOf(req[r].caller)] = req[r].hash] ELSE tokenAddress
  /\ req' = [req EXCEPT ![r].pc = "done"]
  /\ UNCHANGED <<balance, txs, started, wallets, deployed, tokenHistory, chainVars, sigVars, events, auxVars, custodyVars>>

\* ------------------------------------------------------------ token and wallet administration
\* POST /api/community/reset-token by a coordinator whose community has a
\* token: storage.resetCommunityToken.
ResetToken(u) ==
  /\ Answered /\ started < MaxRequests
  /\ Role(u) = "coordinator" /\ CommunityOf(u) # "none" /\ TokenOf(CommunityOf(u)) # 0
  /\ started' = started + 1
  /\ tokenAddress' = [tokenAddress EXCEPT ![CommunityOf(u)] = 0]
  /\ tokenHistory' = [tokenHistory EXCEPT ![CommunityOf(u)].created = 0]
  /\ UNCHANGED <<balance, txs, req, wallets, deployed, chainVars, sigVars, events, auxVars, custodyVars>>

\* POST /api/community/chain-profile by a coordinator, with an active chain
\* profile: storage.setCommunityChainProfile clears the token address.
SwitchChain(u) ==
  /\ Answered /\ started < MaxRequests
  /\ Role(u) = "coordinator" /\ CommunityOf(u) # "none"
  /\ started' = started + 1
  /\ tokenAddress' = [tokenAddress EXCEPT ![CommunityOf(u)] = 0]
  /\ tokenHistory' = [tokenHistory EXCEPT ![CommunityOf(u)] = [created |-> 0, retired |-> @.retired \cup ({TokenOf(CommunityOf(u))} \ {0})]]
  /\ UNCHANGED <<balance, txs, req, wallets, deployed, chainVars, sigVars, events, auxVars, custodyVars>>

\* DELETE /api/wallets/:id by the owner of the wallet, for the wallet the
\* account got at registration.
DeleteWallet(u) ==
  /\ Answered /\ started < MaxRequests
  /\ u \in wallets
  /\ started' = started + 1
  /\ wallets' = wallets \ {u}
  /\ walletRows' = [i \in DOMAIN walletRows |-> IF walletRows[i].owner = u THEN [walletRows[i] EXCEPT !.deleted = TRUE] ELSE walletRows[i]]
  /\ UNCHANGED <<balance, txs, req, tokenAddress, deployed, tokenHistory, chainVars, sigVars, events, auxVars, vault, wreq>>

\* ------------------------------------------------------------ the settlement layer
NoSreq == [kind |-> "none", pc |-> "idle", sig |-> NoSig, deadline |-> 0, submitted |-> FALSE]

\* The realtime connections the server may see.
Socks == {"s1", "s2"}

\* The data of an authenticate message; "none" is an absent communityId.
NoMsg == [userId |-> "none", communityId |-> "none"]

\* A connection that was not made yet.  session is the userId of the session
\* of the upgrade request, pc the position of the authenticate handler, msg
\* the message it handles.
FreeSocket == [session |-> "none", state |-> "free", rooms |-> {}, pc |-> "idle", msg |-> NoMsg]

\* No realtime connection yet; the three accounts are registered.
\* The browser before its socket connects: an empty pending list, no fetch
\* sent, nothing in flight on the socket.
NoClient == [pendingTransactions |-> <<>>, connected |-> FALSE, connects |-> 0, requests |-> 0, replies |-> {}, channel |-> <<>>, completed |-> {}]

AuxInit ==
  /\ sockets = [s \in Socks |-> FreeSocket]
  /\ inbox = {}
  /\ registered = Users
  /\ client = NoClient

\* What decryptPrivateKey gives when it throws.
CryptoError == [ok |-> FALSE, value |-> <<>>]

\* No key was encrypted yet.
NoVault == [k |-> <<>>, iv |-> <<>>, key |-> 0, rec |-> <<>>, tampers |-> 0, out |-> CryptoError, stage |-> "none"]

\* The wallet requests the server may have in flight.
WReqs == {"w1", "w2"}

\* No wallet request.  seen is what createWallet read before its insert,
\* wallet the id of the request's path.
IdleWreq == [kind |-> "none", pc |-> "idle", user |-> "none", wallet |-> 0, seen |-> 0]

\* A row of the wallets table.
WalletRow(owner, isDefault) == [owner |-> owner, isDefault |-> isDefault, deleted |-> FALSE]

\* The accounts in the order they registered.
RegisteredOrder == <<"coord", "alice", "prov">>

\* Registration has stored one wallet, marked default, for every account.
CustodyInit ==
  /\ vault = NoVault
  /\ walletRows = [i \in 1..Len(RegisteredOrder) |-> WalletRow(RegisteredOrder[i], 1)]
  /\ wreq = [w \in WReqs |-> IdleWreq]

\* Registration gives every account a default wallet and balance 0; a
\* community starts without a token.
Fresh ==
  /\ balance = [u \in Users |-> 0]
  /\ tokenAddress = [c \in Communities |-> 0]
  /\ txs = <<>>
  /\ deployed = 0
  /\ mintNonces = [t \in Tokens |-> [u \in Users |-> 0]]
  /\ chainLog = <<>>
  /\ events = {}

\* The state after the coordinator created the token and distributed
\* MaxAmount to itself and then twice to alice.
Funded ==
  /\ balance = [u \in Users |-> CASE u = "alice" -> 2 * MaxAmount [] u = "coord" -> MaxAmount [] OTHER -> 0]
  /\ tokenAddress = [c \in Communities |-> 1]
  /\ txs = <<NewTx("receive", MaxAmount, "completed", 1, "coord", "coord", "none", "c1"), NewTx("receive", MaxAmount, "completed", 2, "coord", "alice", "none", "c1"), NewTx("receive", MaxAmount, "completed", 3, "coord", "alice", "none", "c1")>>
  /\ deployed = 1
  /\ mintNonces = [t \in Tokens |-> [u \in Users |-> IF t = 1 /\ u = "coord" THEN 3 ELSE 0]]
  /\ chainLog = <<LogEntry("mint", 1, "coord", "coord", MaxAmount, 0), LogEntry("mint", 1, "coord", "alice", MaxAmount, 1), LogEntry("mint", 1, "coord", "alice", MaxAmount, 2)>>
  /\ events = {[type |-> type, txid |-> id] : type \in {"created", "completed"}, id \in 1..3}

Init ==
  /\ Fresh \/ Funded
  /\ tokenHistory = [c \in Communities |-> [created |-> deployed, retired |-> {}]]
  /\ wallets = Users
  /\ req = [r \in Reqs |-> IdleReq]
  /\ started = 0
  /\ burnNonces = [t \in Tokens |-> [u \in Users |-> 0]]
  /\ permitNonces = [t \in Tokens |-> [u \in Users |-> 0]]
  /\ allowance = [t \in Tokens |-> [u \in Users |-> 0]]
  /\ now = Window
  /\ ticks = 0
  /\ sigPool = {}
  /\ sreq = NoSreq
  /\ AuxInit
  /\ CustodyInit

Distribute(r) ==
  \/ \E u \in Users, n \in 0..MaxBatch, bodyOk \in BOOLEAN : DistributeStart(r, u, n, bodyOk)
  \/ \E email \in Emails, amount \in 1..MaxAmount : DistributeItem(r, email, amount)
  \/ DistributeSign(r) \/ DistributeMintOk(r) \/ DistributeMintFail(r)
  \/ DistributeCredit(r) \/ DistributeComplete(r) \/ DistributeFinish(r)

Burn(r) ==
  \/ \E u \in Users, amount \in 0..MaxAmount, target \in Users \cup {"self", "unknown"} : BurnStart(r, u, amount, target)
  \/ BurnSign(r) \/ BurnOk(r) \/ BurnFail(r) \/ BurnDebit(r) \/ BurnComplete(r)

BurnAll(r) ==
  \/ \E u \in Users : BurnAllStart(r, u)
  \/ BurnAllItem(r) \/ BurnAllSign(r) \/ BurnAllOk(r) \/ BurnAllFail(r)
  \/ BurnAllDebit(r) \/ BurnAllComplete(r) \/ BurnAllFinish(r)

Transfer(r) ==
  \/ \E u \in Users, recipient \in Users \cup {"none", "unknown"}, amount \in 0..MaxAmount : TransferStart(r, u, recipient, amount)
  \/ TransferSign(r) \/ TransferDebit(r) \/ TransferCredit(r) \/ TransferRecord(r)

Purchase(r) ==
  \/ \E u \in Users, p \in Products \cup {"none", "p0"} : PurchaseStart(r, u, p)
  \/ PurchaseSign(r) \/ PurchaseDebit(r) \/ PurchaseCredit(r) \/ PurchaseComplete(r)

PermitTransfer(r) == PermitOk(r) \/ PermitFail(r) \/ AllowanceRead(r) \/ TransferFromOk(r) \/ TransferFromFail(r)

CreateToken(r) == (\E u \in Users : CreateTokenStart(r, u)) \/ CreateTokenDeployed(r) \/ CreateTokenNoEvent(r) \/ CreateTokenFail(r) \/ CreateTokenStore(r)

Next ==
  \/ \E r \in Reqs : Distribute(r) \/ Burn(r) \/ BurnAll(r) \/ Transfer(r) \/ Purchase(r) \/ PermitTransfer(r) \/ CreateToken(r) \/ Respond(r)
  \/ \E u \in Users : ResetToken(u) \/ SwitchChain(u) \/ DeleteWallet(u)

Spec == Init /\ [][Next]_vars

\* The permit-based flows alone: alice, who holds 2 * MaxAmount, sends to the
\* coordinator and buys the product of her community.
NextPermit ==
  \E r \in Reqs :
    \/ \E amount \in 1..MaxTransfer : TransferStart(r, "alice", "coord", amount)
    \/ TransferSign(r) \/ TransferDebit(r) \/ TransferCredit(r) \/ TransferRecord(r)
    \/ PurchaseStart(r, "alice", "p1")
    \/ PurchaseSign(r) \/ PurchaseDebit(r) \/ PurchaseCredit(r) \/ PurchaseComplete(r)
    \/ PermitTransfer(r) \/ Respond(r)

SpecPermit == Init /\ [][NextPermit]_vars

\* No request is in flight.
Quiet == \A q \in Reqs : req[q].pc = "idle"

\* Purchases of alice and burn-all requests of the coordinator, one request
\* at a time.
NextInTurn ==
  \E r \in Reqs :
    \/ Quiet /\ PurchaseStart(r, "alice", "p1")
    \/ PurchaseSign(r) \/ PurchaseDebit(r) \/ PurchaseCredit(r) \/ PurchaseComplete(r)
    \/ PermitTransfer(r)
    \/ Quiet /\ BurnAllStart(r, "coord")
    \/ BurnAllItem(r) \/ BurnAllSign(r) \/ BurnAllOk(r) \/ BurnAllFail(r)
    \/ BurnAllDebit(r) \/ BurnAllComplete(r) \/ BurnAllFinish(r)
    \/ Respond(r)

SpecInTurn == Init /\ [][NextInTurn]_vars

\* ------------------------------------------------------------ storage called directly
\* storage.burnAllCommunityTokens(communityId, coordinatorId): every holder
\* with a positive balance gets a completed burn row, written without a hash,
\* and a holder that is not a provider gets balance 0.
burnAllCommunityTokens(communityId, coordinatorId) ==
  /\ Answered /\ started < MaxRequests
  /\ started' = started + 1
  /\ LET balances == getCommunityBalances(balance, txs, communityId)
         burned == SelectSeq(balances, LAMBDA b : b.tokenBalance > 0)
     IN /\ balance' = [u \in Users |-> IF \E i \in 1..Len(burned) : burned[i].id = u /\ burned[i].role # "provider" THEN 0 ELSE balance[u]]
        /\ txs' = txs \o [i \in 1..Len(burned) |-> NewTx("burn", burned[i].tokenBalance, "completed", 0, burned[i].id, coordinatorId, "none", communityId)]
  /\ UNCHANGED <<req, adminVars, chainVars, sigVars, events, auxVars, custodyVars>>

\* storage.updateTransactionStatus(id, status) with the hash left out.
StatusWithoutHash(status) ==
  /\ Answered /\ started < MaxRequests
  /\ started' = started + 1
  /\ \E id \in 1..Len(txs) : txs' = updateTransactionStatus(txs, id, status, 0)
  /\ UNCHANGED <<balance, req, adminVars, chainVars, sigVars, events, auxVars, custodyVars>>

NextStorage ==
  \/ Next
  \/ \E c \in Communities : burnAllCommunityTokens(c, "coord")
  \/ \E status \in {"pending", "completed", "failed"} : StatusWithoutHash(status)

SpecStorage == Init /\ [][NextStorage]_vars

\* storage.createTransaction called directly with a purchase or a burn row.
createTransaction(type, amount, from, product, community, status) ==
  /\ Cardinality({i \in DOMAIN txs : txs[i].type \in {"purchase", "burn"}}) < MaxRows
  /\ txs' = Append(txs, NewTx(type, amount, status, 0, from, "none", product, community))
  /\ UNCHANGED <<balance, req, started, adminVars, chainVars, sigVars, events, auxVars, custodyVars>>

NextLedger ==
  \E type \in {"purchase", "burn"}, amount \in 1..MaxAmount, from \in {"alice", "prov"}, product \in {"p1", "none"}, community \in Communities \cup {"none"}, status \in {"pending"} :
    createTransaction(type, amount, from, product, community, status)

SpecLedger == Init /\ [][NextLedger]_vars

\* ------------------------------------------------------------ the with-signature endpoints
\* What a client may put for deadlineMinutes * 60: a deadline that is soon
\* over, and one that is too far ahead until the clock has moved.
Offsets == {1, Window + 1}

\* The answer of a with-signature handler is sent in the turn that ends it.
AnsweredSig == sreq.pc \notin {"done", "rejected", "failed"}

\* The clock moves on.
Tick(d) ==
  /\ AnsweredSig /\ ticks < MaxTicks
  /\ ticks' = ticks + 1
  /\ now' = now + d
  /\ UNCHANGED <<balance, txs, req, started, adminVars, chainVars, sigPool, sreq, events, auxVars, custodyVars>>

\* POST /api/blockchain/sign-mint with a wallet of the session user: the
\* client gets the signature.
SignMint(u, to, amount, offset) ==
  /\ AnsweredSig /\ u \in wallets
  /\ Cardinality(sigPool) < MaxSigs
  /\ sigPool' = sigPool \cup {signMintAuthorization(u, to, amount, now + offset, 1)}
  /\ UNCHANGED <<balance, txs, req, started, adminVars, chainVars, now, ticks, sreq, events, auxVars, custodyVars>>

\* POST /api/blockchain/sign-burn.
SignBurn(u, from, amount, offset) ==
  /\ AnsweredSig /\ u \in wallets
  /\ Cardinality(sigPool) < MaxSigs
  /\ sigPool' = sigPool \cup {signBurnAuthorization(u, from, amount, now + offset, 1)}
  /\ UNCHANGED <<balance, txs, req, started, adminVars, chainVars, now, ticks, sreq, events, auxVars, custodyVars>>

\* Checks that let a deadline equal to the current time pass.
WithSigRejectLate(deadline) ==
  IF deadline = 0 THEN "missing"
  ELSE IF deadline < now THEN "expired"
  ELSE IF deadline > now + Window THEN "far"
  ELSE "ok"

\* The checks of the mint-with-sig and burn-with-sig handlers on the deadline
\* of the body; 0 is a body without a deadline.
WithSigReject(deadline) ==
  IF deadline = 0 THEN "missing"
  ELSE IF deadline <= now THEN "expired"
  ELSE IF deadline > now + Window THEN "far"
  ELSE "ok"

\* POST /api/blockchain/mint-with-sig or burn-with-sig arrives with a
\* signature the client holds and a deadline of the client's choice: none
\* (later = -1), the signed one, or a later one.
WithSigStart(later) ==
  /\ sreq.pc = "idle"
  /\ \E sig \in sigPool :
       LET deadline == IF later = -1 THEN 0 ELSE sig.deadline + later
       IN sreq' = [kind |-> sig.kind, pc |-> IF WithSigReject(deadline) = "ok" THEN "submit" ELSE "rejected", sig |-> sig, deadline |-> deadline, submitted |-> FALSE]
  /\ UNCHANGED <<balance, txs, req, started, adminVars, chainVars, now, ticks, sigPool, events, auxVars, custodyVars>>

\* blockchain.mintWithSignature confirmed.
MintWithSigOk ==
  /\ sreq.pc = "submit" /\ sreq.kind = "mint"
  /\ MintAccepts(sreq.sig.token, sreq.sig.signer, sreq.sig.party, sreq.sig.amount, sreq.deadline, sreq.sig)
  /\ MintWithSig(sreq.sig.token, sreq.sig.signer, sreq.sig.party, sreq.sig.amount)
  /\ sreq' = [sreq EXCEPT !.pc = "done", !.submitted = TRUE]
  /\ UNCHANGED <<balance, txs, req, started, adminVars, now, ticks, sigPool, events, auxVars, custodyVars>>

\* blockchain.burnWithSignature confirmed.
BurnWithSigOk ==
  /\ sreq.pc = "submit" /\ sreq.kind = "burn"
  /\ BurnAccepts(sreq.sig.token, sreq.sig.signer, sreq.sig.party, sreq.sig.amount, sreq.deadline, sreq.sig)
  /\ BurnWithSig(sreq.sig.token, sreq.sig.signer, sreq.sig.party, sreq.sig.amount)
  /\ sreq' = [sreq EXCEPT !.pc = "done", !.submitted = TRUE]
  /\ UNCHANGED <<balance, txs, req, started, adminVars, now, ticks, sigPool, events, auxVars, custodyVars>>

\* The chain call throws: the handler answers 500.
WithSigFail ==
  /\ sreq.pc = "submit"
  /\ sreq' = [sreq EXCEPT !.pc = "failed", !.submitted = TRUE]
  /\ UNCHANGED <<balance, txs, req, started, adminVars, chainVars, now, ticks, sigPool, events, auxVars, custodyVars>>

WithSigRespond ==
  /\ sreq.pc \in {"done", "rejected", "failed"}
  /\ sreq' = NoSreq
  /\ UNCHANGED <<balance, txs, req, started, adminVars, chainVars, now, ticks, sigPool, events, auxVars, custodyVars>>

\* The endpoints run against a community whose token is deployed.
InitSig == Init /\ tokenAddress["c1"] # 0

NextSig ==
  \/ \E d \in {1, Window} : Tick(d)
  \/ \E u \in {"coord", "alice"}, offset \in Offsets : SignMint(u, "alice", MaxAmount, offset) \/ SignBurn(u, "alice", MaxAmount, offset)
  \/ \E later \in {-1, 0, 1} : WithSigStart(later)
  \/ MintWithSigOk \/ BurnWithSigOk \/ WithSigFail \/ WithSigRespond

SpecSig == InitSig /\ [][NextSig]_vars

\* ------------------------------------------------------------ the realtime notifier
UserRoom(u) == <<"user", u>>

CommunityRoom(c) == <<"community", c>>

\* What reaches the client of connection s: nothing once it is disconnected.
Received(s, event, about) == IF sockets[s].state = "open" THEN {[sock |-> s, event |-> event, about |-> about]} ELSE {}

\* io.on("connection"): without a userId in the session the connection gets
\* auth-required and is disconnected, and no authenticate handler is set.
Connection(s, sessionUserId) ==
  /\ sockets[s].state = "free"
  /\ IF sessionUserId = "none"
     THEN /\ sockets' = [sockets EXCEPT ![s].state = "closed"]
          /\ inbox' = inbox \cup {[sock |-> s, event |-> "auth-required", about |-> "none"]}
     ELSE /\ sockets' = [sockets EXCEPT ![s].state = "open", ![s].session = sessionUserId]
          /\ UNCHANGED inbox
  /\ UNCHANGED <<balance, txs, req, started, adminVars, chainVars, sigVars, events, registered, client, custodyVars>>

\* socket.on("authenticate"), up to the await of storage.getUser: a userId
\* that is not the session's is answered with error and a disconnect, which
\* leaves every room.
Authenticate(s, userId, communityId) ==
  /\ sockets[s].state = "open" /\ sockets[s].pc = "idle"
  /\ IF userId # sockets[s].session
     THEN /\ sockets' = [sockets EXCEPT ![s].state = "closed", ![s].rooms = {}, ![s].msg = [userId |-> userId, communityId |-> communityId]]
          /\ inbox' = inbox \cup Received(s, "error", "user")
     ELSE /\ sockets' = [sockets EXCEPT ![s].pc = "lookup", ![s].msg = [userId |-> userId, communityId |-> communityId]]
          /\ UNCHANGED inbox
  /\ UNCHANGED <<balance, txs, req, started, adminVars, chainVars, sigVars, events, registered, client, custodyVars>>

\* Checks that take the community of the message as it comes.
AuthenticateRejectAnyCommunity(s) ==
  IF sockets[s].session \notin registered THEN "notfound"
  ELSE "ok"

\* The reason the second half of the handler has to disconnect, if any.
AuthenticateReject(s) ==
  IF sockets[s].session \notin registered THEN "notfound"
  ELSE IF sockets[s].msg.communityId # "none" /\ sockets[s].msg.communityId # CommunityOf(sockets[s].session) THEN "community"
  ELSE "ok"

\* The rooms a connection joins: its user's and, for a member, its
\* community's.
Joined(s) == {UserRoom(sockets[s].session)} \cup (IF CommunityOf(sockets[s].session) # "none" THEN {CommunityRoom(CommunityOf(sockets[s].session))} ELSE {})

\* socket.on("authenticate"), after storage.getUser: the account must exist
\* and a claimed community must be the account's; then the connection joins
\* its rooms and gets authenticated.  The handler does not look whether the
\* connection is still there.
AuthenticateLookedUp(s) ==
  /\ sockets[s].pc = "lookup"
  /\ IF AuthenticateReject(s) # "ok"
     THEN /\ sockets' = [sockets EXCEPT ![s].state = "closed", ![s].rooms = {}, ![s].pc = "idle"]
          /\ inbox' = inbox \cup Received(s, "error", AuthenticateReject(s))
     ELSE /\ sockets' = [sockets EXCEPT ![s].rooms = @ \cup Joined(s), ![s].pc = "idle"]
          /\ inbox' = inbox \cup Received(s, "authenticated", "none")
  /\ UNCHANGED <<balance, txs, req, started, adminVars, chainVars, sigVars, events, registered, client, custodyVars>>

\* The client goes away: the connection leaves every room.
Disconnect(s) ==
  /\ sockets[s].state = "open"
  /\ sockets' = [sockets EXCEPT ![s].state = "closed", ![s].rooms = {}]
  /\ UNCHANGED <<balance, txs, req, started, adminVars, chainVars, sigVars, events, inbox, registered, client, custodyVars>>

\* An emit that goes to every connection.
emitBalanceUpdateToAll(userId) ==
  /\ inbox' = inbox \cup UNION {Received(s, "balance-update", userId) : s \in Socks}
  /\ UNCHANGED <<balance, txs, req, started, adminVars, chainVars, sigVars, events, sockets, registered, client, custodyVars>>

\* emitBalanceUpdate(userId, newBalance): io.to("user:" + userId).emit goes to
\* the connections that are in the room.
emitBalanceUpdate(userId) ==
  /\ inbox' = inbox \cup UNION {Received(s, "balance-update", userId) : s \in {q \in Socks : UserRoom(userId) \in sockets[q].rooms}}
  /\ UNCHANGED <<balance, txs, req, started, adminVars, chainVars, sigVars, events, sockets, registered, client, custodyVars>>

\* storage.deleteUser(id).
deleteUser(id) ==
  /\ id \in registered
  /\ registered' = registered \ {id}
  /\ UNCHANGED <<balance, txs, req, started, adminVars, chainVars, sigVars, events, sockets, inbox, client, custodyVars>>

NextSocket ==
  \/ \E s \in Socks, sessionUserId \in Users \cup {"none"} : Connection(s, sessionUserId)
  \/ \E s \in Socks, userId \in Users, communityId \in {"none", "c1", "c2"} : Authenticate(s, userId, communityId)
  \/ \E s \in Socks : AuthenticateLookedUp(s) \/ Disconnect(s)
  \/ \E userId \in Users : emitBalanceUpdate(userId) \/ deleteUser(userId)

SpecSocket == Init /\ [][NextSocket]_vars

\* ------------------------------------------------------------ the client
\* The member whose browser is modelled.
ClientUser == "alice"

\* GET /api/transactions: the rows the user sent or received, newest first,
\* as the reply carries them; the client reads their id and status.
RECURSIVE getTransactionsByUserWithNames(_, _, _)
getTransactionsByUserWithNames(T, userId, i) ==
  IF i > Len(T) THEN <<>>
  ELSE getTransactionsByUserWithNames(T, userId, i + 1) \o (IF T[i].from = userId \/ T[i].to = userId THEN <<[id |-> i, status |-> T[i].status]>> ELSE <<>>)

IsPending(t) == t.status = "pending"

\* What one emit puts on a connected socket: the server emits every event
\* to the room of the user and to the room of the community, and the socket
\* of a member is in both.
Emitted(type, id, status) ==
  IF client.connected THEN <<[type |-> type, id |-> id, status |-> status], [type |-> type, id |-> id, status |-> status]>> ELSE <<>>

\* A route creates a pending row for the member and emits created.
TransactionCreated(amount) ==
  /\ Len(txs) < Len(chainLog) + MaxClientTxs
  /\ txs' = Append(txs, NewTx("receive", amount, "pending", 0, "coord", ClientUser, "none", CommunityOf(ClientUser)))
  /\ emitTransactionUpdate("created", Len(txs) + 1)
  /\ client' = [client EXCEPT !.channel = @ \o Emitted("created", Len(txs) + 1, "pending")]
  /\ UNCHANGED <<balance, req, started, adminVars, chainVars, sigVars, sockets, inbox, registered, custodyVars>>

\* The route settles the row and emits completed or failed; the chain write
\* in between is left out, the client reads the id and the status only.
TransactionSettled(id, status) ==
  /\ id \in DOMAIN txs
  /\ txs[id].status = "pending"
  /\ txs' = updateTransactionStatus(txs, id, status, 0)
  /\ emitTransactionUpdate(status, id)
  /\ client' = [client EXCEPT !.channel = @ \o Emitted(status, id, status)]
  /\ UNCHANGED <<balance, req, started, adminVars, chainVars, sigVars, sockets, inbox, registered, custodyVars>>

\* newSocket.on("connect"): the socket is up and fetchPendingTransactions
\* sends its request; a reconnect comes here again.
ClientConnect ==
  /\ ~client.connected
  /\ client.connects < MaxConnects
  /\ client' = [client EXCEPT !.connected = TRUE, !.connects = @ + 1, !.requests = @ + 1]
  /\ UNCHANGED <<balance, txs, req, started, adminVars, chainVars, sigVars, events, sockets, inbox, registered, custodyVars>>

\* newSocket.on("disconnect"): what was on the socket is gone, the pending
\* list is kept.
ClientDisconnect ==
  /\ client.connected
  /\ client' = [client EXCEPT !.connected = FALSE, !.channel = <<>>]
  /\ UNCHANGED <<balance, txs, req, started, adminVars, chainVars, sigVars, events, sockets, inbox, registered, custodyVars>>

\* The server answers one fetch with the rows as they are now.
TransactionsServed ==
  /\ client.requests > 0
  /\ client' = [client EXCEPT !.requests = @ - 1, !.replies = @ \cup {getTransactionsByUserWithNames(txs, ClientUser, 1)}]
  /\ UNCHANGED <<balance, txs, req, started, adminVars, chainVars, sigVars, events, sockets, inbox, registered, custodyVars>>

\* fetchPendingTransactions after its await: the pending rows of the reply
\* replace the list.
fetchPendingTransactions(transactions) ==
  /\ transactions \in client.replies
  /\ client' = [client EXCEPT !.replies = @ \ {transactions}, !.pendingTransactions = SelectSeq(transactions, IsPending)]
  /\ UNCHANGED <<balance, txs, req, started, adminVars, chainVars, sigVars, events, sockets, inbox, registered, custodyVars>>

\* setPendingTransactions of a created event: appended unless a row with
\* the id is in the list.
AddPending(prev, event) ==
  IF \E i \in DOMAIN prev : prev[i].id = event.id THEN prev ELSE Append(prev, [id |-> event.id, status |-> event.status])

\* setPendingTransactions of a completed or failed event.
RemovePending(prev, event) == SelectSeq(prev, LAMBDA t : t.id # event.id)

\* newSocket.on("transaction-update") for the event at the head of the
\* socket; every event of the model is of the member's own community.
TransactionUpdate ==
  /\ client.channel # <<>>
  /\ LET event == Head(client.channel)
     IN client' = [client EXCEPT
          !.channel = Tail(@),
          !.pendingTransactions =
            IF event.type = "created" /\ event.status = "pending" THEN AddPending(@, event)
            ELSE IF event.type \in {"completed", "failed"} THEN RemovePending(@, event)
            ELSE @,
          !.completed = IF event.type = "completed" THEN @ \cup {event.id} ELSE @]
  /\ UNCHANGED <<balance, txs, req, started, adminVars, chainVars, sigVars, events, sockets, inbox, registered, custodyVars>>

NextClient ==
  \/ \E amount \in 1..MaxAmount : TransactionCreated(amount)
  \/ \E id \in 1..(Len(chainLog) + MaxClientTxs), status \in {"completed", "failed"} : TransactionSettled(id, status)
  \/ ClientConnect
  \/ ClientDisconnect
  \/ TransactionsServed
  \/ \E transactions \in client.replies : fetchPendingTransactions(transactions)
  \/ TransactionUpdate

SpecClient == Init /\ [][NextClient]_vars

\* ------------------------------------------------------------ the key vault
\* The characters of a private key string.
KeyChars == {"x", "f"}

\* The derived encryption key: the one of WALLET_ENCRYPTION_KEY, or the one
\* of another secret.
MasterKey == 0

Keys == {0, 1}

\* Buffer.from(string, "utf8") and buffer.toString("utf8"), per character.
CharCode(c) == IF c = "x" THEN 0 ELSE 1

CharOf(b) == IF b = 0 THEN "x" ELSE "f"

utf8Encode(str) == [i \in 1..Len(str) |-> CharCode(str[i])]

utf8Decode(bytes) == [i \in 1..Len(bytes) |-> CharOf(bytes[i])]

\* A number for every sequence of bits, different for different sequences.
RECURSIVE Number(_)
Number(bits) == IF bits = <<>> THEN 1 ELSE Head(bits) + 2 * Number(Tail(bits))

\* The GCM key stream of a key and an initialization vector at position i.
KeyStream(key, iv, i) == (key + Number(iv) + i) % 2

Cipher(key, iv, plain) == [i \in 1..Len(plain) |-> (plain[i] + KeyStream(key, iv, i)) % 2]

Decipher(key, iv, ct) == [i \in 1..Len(ct) |-> (ct[i] + 2 - KeyStream(key, iv, i)) % 2]

\* The authentication tag: TagLength bytes that no other key, initialization
\* vector or ciphertext gives, and no proper part of which another gives.
Mac(key, iv, ct) == key + 2 * (Number(iv) + (2 ^ (IvLength + 1)) * Number(ct))

AuthTag(key, iv, ct) == [i \in 1..TagLength |-> Mac(key, iv, ct)]

\* createDecipheriv is called without authTagLength: setAuthTag takes a tag
\* of any length that GCM allows, and final compares that many bytes.
ValidTagLengths == (TagLength - 1)..TagLength

\* The hexadecimal digits: one digit stands for one byte.
HexDigits == {ToString(b) : b \in 0..Mac(1, [i \in 1..IvLength |-> 1], [i \in 1..(MaxKeyLen + 1) |-> 1])}

HexValue(c) == CHOOSE b \in 0..Mac(1, [i \in 1..IvLength |-> 1], [i \in 1..(MaxKeyLen + 1) |-> 1]) : ToString(b) = c

\* buffer.toString("hex").
toHex(bytes) == [i \in 1..Len(bytes) |-> ToString(bytes[i])]

\* Buffer.from(string, "hex"): decoding stops at the first character that is
\* not a hexadecimal digit.
RECURSIVE fromHex(_)
fromHex(str) == IF str = <<>> \/ Head(str) \notin HexDigits THEN <<>> ELSE <<HexValue(Head(str))>> \o fromHex(Tail(str))

\* string.split(":").
RECURSIVE split(_)
split(str) ==
  IF \A i \in 1..Len(str) : str[i] # ":" THEN <<str>>
  ELSE LET i == CHOOSE j \in 1..Len(str) : str[j] = ":" /\ \A h \in 1..(j - 1) : str[h] # ":"
       IN <<SubSeq(str, 1, i - 1)>> \o split(SubSeq(str, i + 1, Len(str)))

\* A record with the tag in the last field.
encryptPrivateKeyTagLast(privateKey, iv, key) ==
  LET encrypted == Cipher(key, iv, utf8Encode(privateKey))
  IN toHex(iv) \o <<":">> \o toHex(encrypted) \o <<":">> \o toHex(AuthTag(key, iv, encrypted))

\* encryptPrivateKey(privateKey), with the random iv and the derived key as
\* arguments: iv, tag and ciphertext in hexadecimal, joined by colons.
encryptPrivateKey(privateKey, iv, key) ==
  LET encrypted == Cipher(key, iv, utf8Encode(privateKey))
  IN toHex(iv) \o <<":">> \o toHex(AuthTag(key, iv, encrypted)) \o <<":">> \o toHex(encrypted)

\* decryptPrivateKey(encryptedData) with the derived key as argument.  It
\* throws on a record that is not three fields, on an empty iv
\* (createDecipheriv), on a tag of a length GCM does not allow (setAuthTag)
\* and on a tag that does not verify (final).
decryptPrivateKey(encryptedData, key) ==
  LET parts == split(encryptedData)
  IN IF Len(parts) # 3 THEN CryptoError
     ELSE LET iv == fromHex(parts[1])
              authTag == fromHex(parts[2])
              encrypted == fromHex(parts[3])
          IN IF Len(iv) = 0 THEN CryptoError
             ELSE IF Len(authTag) \notin ValidTagLengths THEN CryptoError
             ELSE IF authTag # SubSeq(AuthTag(key, iv, encrypted), 1, Len(authTag)) THEN CryptoError
             ELSE [ok |-> TRUE, value |-> utf8Decode(Decipher(key, iv, encrypted))]

\* The private key strings and the initialization vectors randomBytes may
\* give.
PrivateKeys == UNION {[1..n -> KeyChars] : n \in 1..MaxKeyLen}

Ivs == [1..IvLength -> {0, 1}]

\* The characters a stored record may get: digits, a colon, and a character
\* that is neither.
TamperChars == {"0", "1", ":", "z"}

\* A wallet is created: its private key is encrypted and stored.
Encrypt(privateKey, iv) ==
  /\ vault.stage = "none"
  /\ vault' = [NoVault EXCEPT !.k = privateKey, !.iv = iv, !.key = MasterKey, !.rec = encryptPrivateKey(privateKey, iv, MasterKey), !.stage = "stored"]
  /\ UNCHANGED <<balance, txs, req, started, adminVars, chainVars, sigVars, events, auxVars, walletRows, wreq>>

\* One character of the stored record is changed.
Tamper(i, c) ==
  /\ vault.stage = "stored" /\ vault.tampers < MaxTampers
  /\ i \in 1..Len(vault.rec) /\ vault.rec[i] # c
  /\ vault' = [vault EXCEPT !.rec[i] = c, !.tampers = @ + 1]
  /\ UNCHANGED <<balance, txs, req, started, adminVars, chainVars, sigVars, events, auxVars, walletRows, wreq>>

\* The server is started with another WALLET_ENCRYPTION_KEY.
Rekey ==
  /\ vault.stage = "stored" /\ vault.key = MasterKey
  /\ vault' = [vault EXCEPT !.key = 1]
  /\ UNCHANGED <<balance, txs, req, started, adminVars, chainVars, sigVars, events, auxVars, walletRows, wreq>>

\* A handler decrypts the stored record.
Decrypt ==
  /\ vault.stage = "stored"
  /\ vault' = [vault EXCEPT !.out = decryptPrivateKey(vault.rec, vault.key), !.stage = "decrypted"]
  /\ UNCHANGED <<balance, txs, req, started, adminVars, chainVars, sigVars, events, auxVars, walletRows, wreq>>

NextVault ==
  \/ \E privateKey \in PrivateKeys, iv \in Ivs : Encrypt(privateKey, iv)
  \/ \E i \in 1..(IvLength + TagLength + MaxKeyLen + 2), c \in TamperChars : Tamper(i, c)
  \/ Rekey \/ Decrypt

SpecVault == Init /\ [][NextVault]_vars

\* ------------------------------------------------------------ the wallets table
\* The ids of the wallets of the table that were not deleted.
WalletIds == {i \in DOMAIN walletRows : ~walletRows[i].deleted}

\* storage.getWalletsByUser: the wallets of an account.
getWalletsByUser(rows, userId) == {i \in DOMAIN rows : ~rows[i].deleted /\ rows[i].owner = userId}

\* storage.getDefaultWallet finds a wallet for these accounts.
DefaultOwners(rows) == {rows[i].owner : i \in {j \in DOMAIN rows : ~rows[j].deleted /\ rows[j].isDefault = 1}}

\* Wallet request w is free.
WIdle(w) == wreq[w].pc = "idle"

\* POST /api/wallets/generate and POST /api/wallets/import, up to the
\* select of storage.createWallet: the request remembers how many wallets
\* the account had.
CreateWalletRead(w, u) ==
  /\ WIdle(w) /\ u \in registered
  /\ Len(walletRows) < Len(RegisteredOrder) + MaxWallets
  /\ wreq' = [wreq EXCEPT ![w] = [kind |-> "create", pc |-> "insert", user |-> u, wallet |-> 0, seen |-> Cardinality(getWalletsByUser(walletRows, u))]]
  /\ UNCHANGED <<balance, txs, req, started, adminVars, chainVars, sigVars, events, auxVars, vault, walletRows>>

\* The insert of storage.createWallet; both routes pass isDefault 0, so the
\* wallet is default when the select saw no wallet.
CreateWalletInsert(w) ==
  /\ wreq[w].pc = "insert"
  /\ walletRows' = Append(walletRows, WalletRow(wreq[w].user, IF wreq[w].seen = 0 THEN 1 ELSE 0))
  /\ wallets' = DefaultOwners(walletRows')
  /\ wreq' = [wreq EXCEPT ![w] = IdleWreq]
  /\ UNCHANGED <<balance, txs, req, started, tokenAddress, deployed, tokenHistory, chainVars, sigVars, events, auxVars, vault>>

\* POST /api/wallets/:id/set-default, up to the ownership check: a wallet
\* that is missing or of another account is answered 404.
SetDefaultStart(w, u, id) ==
  /\ WIdle(w) /\ u \in registered
  /\ id \in WalletIds /\ walletRows[id].owner = u
  /\ wreq' = [wreq EXCEPT ![w] = [kind |-> "set-default", pc |-> "clear", user |-> u, wallet |-> id, seen |-> 0]]
  /\ UNCHANGED <<balance, txs, req, started, adminVars, chainVars, sigVars, events, auxVars, vault, walletRows>>

\* The first update of storage.setDefaultWallet: no wallet of the account
\* is default.
SetDefaultClear(w) ==
  /\ wreq[w].pc = "clear"
  /\ walletRows' = [i \in DOMAIN walletRows |-> IF walletRows[i].owner = wreq[w].user THEN [walletRows[i] EXCEPT !.isDefault = 0] ELSE walletRows[i]]
  /\ wallets' = DefaultOwners(walletRows')
  /\ wreq' = [wreq EXCEPT ![w].pc = "set"]
  /\ UNCHANGED <<balance, txs, req, started, tokenAddress, deployed, tokenHistory, chainVars, sigVars, events, auxVars, vault>>

\* The second update of storage.setDefaultWallet: the wallet of the path,
\* when it is still there, is default.
SetDefaultSet(w) ==
  /\ wreq[w].pc = "set"
  /\ walletRows' = [i \in DOMAIN walletRows |-> IF i = wreq[w].wallet /\ walletRows[i].owner = wreq[w].user THEN [walletRows[i] EXCEPT !.isDefault = 1] ELSE walletRows[i]]
  /\ wallets' = DefaultOwners(walletRows')
  /\ wreq' = [wreq EXCEPT ![w] = IdleWreq]
  /\ UNCHANGED <<balance, txs, req, started, tokenAddress, deployed, tokenHistory, chainVars, sigVars, events, auxVars, vault>>

\* DELETE /api/wallets/:id, up to the ownership check.
DeleteWalletStart(w, u, id) ==
  /\ WIdle(w) /\ u \in registered
  /\ id \in WalletIds /\ walletRows[id].owner = u
  /\ wreq' = [wreq EXCEPT ![w] = [kind |-> "delete", pc |-> "delete", user |-> u, wallet |-> id, seen |-> 0]]
  /\ UNCHANGED <<balance, txs, req, started, adminVars, chainVars, sigVars, events, auxVars, vault, walletRows>>

\* storage.deleteWallet: the row goes, whatever its default mark.
deleteWallet(w) ==
  /\ wreq[w].pc = "delete"
  /\ walletRows' = [walletRows EXCEPT ![wreq[w].wallet].deleted = TRUE]
  /\ wallets' = DefaultOwners(walletRows')
  /\ wreq' = [wreq EXCEPT ![w] = IdleWreq]
  /\ UNCHANGED <<balance, txs, req, started, tokenAddress, deployed, tokenHistory, chainVars, sigVars, events, auxVars, vault>>

NextWallet ==
  \E w \in WReqs :
    \/ \E u \in Users : CreateWalletRead(w, u)
    \/ CreateWalletInsert(w)
    \/ \E u \in Users, id \in 1..(Len(RegisteredOrder) + MaxWallets) : SetDefaultStart(w, u, id)
    \/ SetDefaultClear(w) \/ SetDefaultSet(w)
    \/ \E u \in Users, id \in 1..(Len(RegisteredOrder) + MaxWallets) : DeleteWalletStart(w, u, id)
    \/ deleteWallet(w)

SpecWallet == Init /\ [][NextWallet]_vars

\* ------------------------------------------------------------ properties
\* The requests of one kind that got past their checks.
Running(kind) == {r \in Reqs : req[r].kind = kind /\ req[r].pc \notin {"idle", "rejected"}}

\* Request r takes a step from pc to next.
Steps(r, kind, pc, next) == req[r].kind = kind /\ req[r].pc = pc /\ req'[r].pc = next

Items(list) == {list[i].item : i \in 1..Len(list)}

\* C1: after any sequence of settlement requests and storage operations, every
\* transaction record whose status is completed has a non-null txHash.
CompletedRecordsCarryHash == \A i \in 1..Len(txs) : txs[i].status = "completed" => txs[i].txHash # 0

\* C2: a distribute item of amount X to member A whose mintWithSig is confirmed
\* adds exactly X to A's cached balance and to no other balance (the credit is
\* the only step of the item that writes a balance), and the record created
\* for the item ends completed with the hash of that mint.
DistributeCreditsAmount ==
  [][\A r \in Reqs :
       /\ Steps(r, "distribute", "credit", "complete") => balance' = [balance EXCEPT ![req[r].target] = @ + req[r].amount]
       /\ (req[r].kind = "distribute" /\ req'[r] # req[r] /\ req[r].pc # "credit") => balance' = balance
       /\ Steps(r, "distribute", "complete", "loop") =>
            /\ txs'[req[r].txid].status = "completed" /\ txs'[req[r].txid].to = req[r].target /\ txs'[req[r].txid].amount = req[r].amount
            /\ txs'[req[r].txid].txHash = req[r].hash
            /\ chainLog[req[r].hash] = LogEntry("mint", req[r].tok, req[r].caller, req[r].target, req[r].amount, chainLog[req[r].hash].nonce)]_vars

\* C2, the case: an item to alice is completed and alice holds more than the
\* amount of the item.
DistributeCreditedOnTop == \E r \in Reqs : req[r].kind = "distribute" /\ Len(req[r].results) > 0 /\ req[r].results[1].email = "alice" /\ txs[req[r].results[1].txid].status = "completed" /\ balance["alice"] > req[r].results[1].amount

\* C3: every item of a distribute batch that the loop has passed is in exactly
\* one of distributed and errors; an item of an unknown recipient, of a
\* recipient outside the community or of a failed chain call is in errors; a
\* listed success is a member's confirmed mint with its hash; the request is
\* answered only when every item was processed, and never ends on a failure.
DistributeItemsIsolated ==
  \A r \in Running("distribute") :
    /\ req[r].pc # "failed"
    /\ Items(req[r].results) \cup Items(req[r].errors) = 1..req[r].idx
    /\ Items(req[r].results) \cap Items(req[r].errors) = {}
    /\ Len(req[r].results) + Len(req[r].errors) = req[r].idx
    /\ req[r].pc = "done" => req[r].idx = req[r].n
    /\ \A i \in 1..Len(req[r].errors) : req[r].errors[i].reason \in {"notfound", "community", "chain"} /\ (req[r].errors[i].reason = "notfound" <=> req[r].errors[i].email \notin Users) /\ (req[r].errors[i].reason = "community" <=> (req[r].errors[i].email \in Users /\ CommunityOf(req[r].errors[i].email) # CommunityOf(req[r].caller)))
    /\ \A i \in 1..Len(req[r].results) :
         /\ req[r].results[i].email \in Users /\ CommunityOf(req[r].results[i].email) = CommunityOf(req[r].caller)
         /\ req[r].results[i].txHash \in 1..Len(chainLog)
         /\ chainLog[req[r].results[i].txHash].kind = "mint" /\ chainLog[req[r].results[i].txHash].party = req[r].results[i].email
         /\ \A j \in 1..Len(req[r].results) : req[r].results[j].txHash = req[r].results[i].txHash => j = i

\* C3, the case: a batch of two is answered, its first item failed and its
\* second item is listed in distributed.
DistributeWentOnAfterError == \E r \in Reqs : req[r].kind = "distribute" /\ req[r].pc = "done" /\ req[r].n = 2 /\ Items(req[r].errors) = {1} /\ Items(req[r].results) = {2}

\* C4 as stated: when burn-all has written the balance of a holder that is
\* not a provider and whose burn was confirmed, that balance is 0.
BurnAllLeavesZero == [][\A r \in Reqs : (Steps(r, "burnall", "debit", "complete") /\ Role(req[r].target) # "provider") => balance'[req[r].target] = 0]_vars

\* C4 amended: burn-all reports totalBurned equal to the sum of the balances
\* it read of the holders whose burn was confirmed and usersAffected equal to
\* their number; holders it read with balance 0 are not in the list; it lowers
\* the cached balance of each such holder that is not a provider by exactly
\* the balance it read (to 0 when no other request changed it meanwhile), and
\* leaves a provider's cached balance alone.
BurnAllTotalsAndDebits ==
  [][\A r \in Reqs :
       /\ Steps(r, "burnall", "debit", "complete") => balance' = IF Role(req[r].target) # "provider" THEN [balance EXCEPT ![req[r].target] = @ - req[r].amount] ELSE balance
       /\ (req[r].kind = "burnall" /\ req'[r] # req[r] /\ req[r].pc # "debit") => balance' = balance
       /\ req'[r].kind = "burnall" =>
            /\ req'[r].totalBurned = SumSeq([i \in 1..Len(req'[r].results) |-> req'[r].results[i].amount])
            /\ req'[r].usersAffected = Len(req'[r].results)
            /\ \A i \in 1..Len(req'[r].results) :
                 /\ req'[r].results[i].amount > 0
                 /\ req'[r].results[i].amount = req'[r].snap[req'[r].results[i].item].tokenBalance
                 /\ chainLog'[req'[r].results[i].txHash] = LogEntry("burn", req'[r].tok, req'[r].caller, req'[r].results[i].email, req'[r].results[i].amount, chainLog'[req'[r].results[i].txHash].nonce)
            /\ \A i \in 1..Len(req'[r].snap) : req'[r].snap[i].tokenBalance > 0
            /\ Items(req'[r].results) \cup Items(req'[r].errors) = 1..req'[r].idx
            /\ Items(req'[r].results) \cap Items(req'[r].errors) = {}
            /\ req'[r].pc = "done" => req'[r].idx = Len(req'[r].snap)]_vars

\* C4, the case: burn-all is answered after the burns of two holders with
\* different balances were confirmed, and both hold 0.
BurnAllBurnedTwo == \E r \in Reqs : req[r].kind = "burnall" /\ req[r].pc = "done" /\ req[r].usersAffected = 2 /\ req[r].totalBurned = 3 * MaxAmount /\ balance["alice"] = 0 /\ balance["coord"] = 0

\* The requests that hold a signature not yet submitted.
Holding == {r \in Reqs : req[r].sig # NoSig}

\* C5: two requests that signed for the same signer, token and nonce type,
\* with nothing consumed for that signer between the two reads of the
\* counter and neither signature submitted yet, carry the same nonce.
ConcurrentSignersShareNonce == \A r \in Holding, q \in Holding : (req[r].sig.kind = req[q].sig.kind /\ req[r].sig.token = req[q].sig.token /\ req[r].sig.signer = req[q].sig.signer /\ req[r].sig.epoch = req[q].sig.epoch) => req[r].sig.nonce = req[q].sig.nonce

\* C5, the case: two requests in flight hold mint authorizations of the same
\* signer with the same nonce.
TwoMintSignaturesOneNonce == \E r \in Holding, q \in Holding : r # q /\ req[r].sig.kind = "mint" /\ req[q].sig.kind = "mint" /\ req[r].sig.signer = req[q].sig.signer /\ req[r].sig.token = req[q].sig.token /\ req[r].sig.nonce = req[q].sig.nonce

\* The counter of the contract that a signature of one kind is checked against.
CounterOf(sig) == IF sig.kind = "mint" THEN mintNonces[sig.token][sig.signer] ELSE burnNonces[sig.token][sig.signer]

\* The last confirmed transaction is a call of one kind by one signer, logged
\* with the nonce it consumed.
Logged(kind, t, signer, nonce) == Len(chainLog') = Len(chainLog) + 1 /\ chainLog'[Len(chainLog')].kind = kind /\ chainLog'[Len(chainLog')].token = t /\ chainLog'[Len(chainLog')].signer = signer /\ chainLog'[Len(chainLog')].nonce = nonce

\* C6: the mint and burn counters of every signer never decrease; a counter
\* moves by exactly 1, and only with a confirmed mintWithSig or burnWithSig
\* that consumed the old value; a reverted call leaves the counters and the
\* log alone; a submission succeeds only when its signature was made over the
\* current counter; no nonce of a signer is consumed twice.
NoncesConsumedOnce ==
  [][/\ \A t \in Tokens, u \in Users :
          /\ mintNonces'[t][u] \in {mintNonces[t][u], mintNonces[t][u] + 1}
          /\ burnNonces'[t][u] \in {burnNonces[t][u], burnNonces[t][u] + 1}
          /\ mintNonces'[t][u] = mintNonces[t][u] + 1 <=> Logged("mint", t, u, mintNonces[t][u])
          /\ burnNonces'[t][u] = burnNonces[t][u] + 1 <=> Logged("burn", t, u, burnNonces[t][u])
     /\ (sreq.pc = "submit" /\ sreq'.pc = "done") => (sreq.sig.nonce = CounterOf(sreq.sig) /\ sreq.sig.key = sreq.sig.signer /\ Logged(sreq.kind, sreq.sig.token, sreq.sig.signer, sreq.sig.nonce))
     /\ (sreq.pc = "submit" /\ sreq'.pc = "failed") => UNCHANGED chainVars
     /\ \A i \in 1..Len(chainLog'), j \in 1..Len(chainLog') : (chainLog'[i].kind \in {"mint", "burn"} /\ chainLog'[i].kind = chainLog'[j].kind /\ chainLog'[i].token = chainLog'[j].token /\ chainLog'[i].signer = chainLog'[j].signer /\ chainLog'[i].nonce = chainLog'[j].nonce) => i = j]_vars

\* C6, the case: a mint authorization of the owner is submitted in time with
\* the deadline it was signed with, after its nonce was consumed by another
\* submission; the call has reverted.
StaleNonceReverted == sreq.pc = "failed" /\ sreq.kind = "mint" /\ sreq.sig.signer = TokenOwner(sreq.sig.token) /\ sreq.deadline = sreq.sig.deadline /\ now <= sreq.deadline /\ sreq.sig.nonce < CounterOf(sreq.sig) /\ \E i \in 1..Len(chainLog) : chainLog[i].kind = "mint" /\ chainLog[i].nonce = sreq.sig.nonce /\ chainLog[i].signer = sreq.sig.signer

\* C7: a mint-with-sig or burn-with-sig request whose deadline is not later
\* than the current time, or more than 3600 seconds ahead, is rejected, and a
\* rejected request submits no chain call: it is answered with the chain as
\* it was.
LateOrFarDeadlineRejected ==
  [][/\ (sreq.pc = "idle" /\ sreq'.pc # "idle" /\ (sreq'.deadline <= now \/ sreq'.deadline > now + 3600)) => (sreq'.pc = "rejected" /\ UNCHANGED chainVars)
     /\ sreq'.pc = "rejected" => ~sreq'.submitted
     /\ sreq.pc = "rejected" => (sreq'.pc \in {"rejected", "idle"} /\ UNCHANGED chainVars)]_vars

\* C7, the case: a request is rejected whose deadline is the current time and
\* the deadline that was signed.
DeadlineNowRejected == sreq.pc = "rejected" /\ sreq.deadline = now /\ sreq.deadline = sreq.sig.deadline

SettlementKinds == {"distribute", "burn", "burnall", "transfer", "purchase"}

\* C8: a settlement request that is rejected for a validation or
\* authorization reason is rejected by its first step, which creates no
\* transaction record, changes no balance and submits no chain write; nothing
\* is done for it afterwards.
RejectionLeavesLedger ==
  [][\A r \in Reqs :
       /\ (req'[r].kind \in SettlementKinds /\ req'[r].pc = "rejected" /\ req'[r] # req[r]) =>
            /\ req[r].pc = "idle"
            /\ req'[r].reason \in {"role", "body", "amount", "community", "token", "wallet", "target", "balance", "recipient", "cross", "product", "provider", "available", "providerwallet"}
            /\ req'[r].eff = NoEff
            /\ UNCHANGED <<balance, txs, chainVars>>
       /\ req[r].pc = "rejected" => (UNCHANGED <<balance, txs, chainVars>> /\ req'[r].pc = "idle")]_vars

\* C8, the case: a burn of a positive amount by the coordinator is rejected
\* because the target is outside the community.
BurnOfOutsiderRejected == \E r \in Reqs : req[r].kind = "burn" /\ req[r].pc = "rejected" /\ req[r].reason = "target"

\* The community a request settles in: the caller's, or for a transfer of a
\* caller without one the recipient's.
CommunityOfRequest(q) == IF q.kind = "transfer" /\ q.target \in Users THEN TransferCommunity(q.caller, q.target) ELSE CommunityOf(q.caller)

\* C9: a settlement request that finds the token address of its community
\* null is rejected by the step that checks it, with no record, balance or
\* chain write; a request that has created a record, changed a balance or
\* submitted a chain write read a token address that was not null.
NoSettlementWithoutToken ==
  [][\A r \in Reqs :
       /\ (req[r].pc = "idle" /\ req'[r].kind \in SettlementKinds /\ TokenOf(CommunityOfRequest(req'[r])) = 0) =>
            (req'[r].pc = "rejected" /\ UNCHANGED <<balance, txs, chainVars>>)
       /\ (req'[r].kind \in SettlementKinds /\ (req'[r].eff # NoEff \/ req'[r].pc \notin {"idle", "rejected"})) => req'[r].tok # 0
       /\ (req[r].kind \in SettlementKinds /\ req[r].tok = 0) => UNCHANGED <<balance, txs, chainVars>>]_vars

\* C9, the case: a transfer of a holder with a sufficient balance is rejected
\* because the community has no token.
FundedTransferWithoutTokenRejected == \E r \in Reqs : req[r].kind = "transfer" /\ req[r].pc = "rejected" /\ req[r].reason = "token" /\ balance[req[r].caller] > 0

\* C10: under the settlement operations no record is removed, and the status
\* of a record changes only from pending to completed.
StatusOneWay == [][Len(txs') >= Len(txs) /\ \A i \in 1..Len(txs) : txs'[i].status # txs[i].status => (txs[i].status = "pending" /\ txs'[i].status = "completed")]_vars

\* C10, the case: a purchase that was recorded pending is completed, after a
\* burn whose chain call failed left its record pending.
PurchaseCompletedBurnPending == \E r \in Reqs : req[r].kind = "purchase" /\ req[r].pc = "done" /\ txs[req[r].txid].status = "completed" /\ \E i \in 1..Len(txs) : txs[i].type = "burn" /\ txs[i].status = "pending"

\* The flows that create a pending record before their chain step.
PendingKinds == {"distribute", "burn", "burnall", "purchase"}

\* The steps of a flow that wait for the chain.
ChainPcs == {"submit", "permit", "allowance", "transferFrom"}

\* The record that request q has created and neither completed nor given up
\* (0: none).
Owned(q) == IF q.kind \in PendingKinds /\ q.pc \in ChainPcs \cup {"sign", "debit", "credit", "complete"} THEN q.txid ELSE 0

\* The chain step of request r fails: r leaves the chain steps, and not for
\* the ledger update that follows a confirmation.
ChainStepFails(r) == req[r].kind \in PendingKinds /\ req[r].pc \in ChainPcs /\ req'[r].pc \notin ChainPcs \cup {"debit", "credit"}

\* C11: when the chain step of a distribute item, a burn, a burn-all item or
\* a purchase fails, the request gives the record up (it ends, or goes on to
\* the next item, without signing or submitting again) and leaves it pending
\* with a null hash; a record that no request in flight holds is never changed
\* again; no record is ever set to failed and no failed event is emitted.
FailedChainStepLeavesPending ==
  [][/\ \A r \in Reqs : ChainStepFails(r) =>
          /\ req'[r].pc \in {"failed", "loop"}
          /\ txs' = txs /\ events' = events
          /\ txs[req[r].txid].status = "pending" /\ txs[req[r].txid].txHash = 0
          /\ \A q \in Reqs : Owned(req'[q]) # req[r].txid
     /\ \A i \in 1..Len(txs) : (\A q \in Reqs : Owned(req[q]) # i) => (txs'[i] = txs[i] /\ \A q \in Reqs : Owned(req'[q]) # i)
     /\ \A i \in 1..Len(txs') : txs'[i].status # "failed"
     /\ \A e \in events' : e.type # "failed"]_vars

\* C11, the case: the record of a purchase whose chain step failed is still
\* pending without a hash after its request was answered and a later
\* settlement was completed.
StuckPurchaseStaysPending == \E i \in 1..Len(txs) : txs[i].type = "purchase" /\ txs[i].status = "pending" /\ txs[i].txHash = 0 /\ (\A q \in Reqs : Owned(req[q]) # i) /\ \E j \in (i + 1)..Len(txs) : txs[j].status = "completed"

\* The record of request q exists and its created event was emitted.
Announced(q, T, E) == q.txid \in 1..Len(T) /\ [type |-> "created", txid |-> q.txid] \in E

PurchaseScopedToCommunity ==
  [][\A r \in Reqs : req'[r].kind = "purchase" =>
       /\ (req'[r].pc \notin {"idle", "rejected"} \/ req'[r].eff # NoEff \/ req'[r].sig # NoSig \/ req'[r].txid # 0) =>
            (req'[r].product \in Products /\ isProductAvailableInCommunity(req'[r].product, CommunityOf(req'[r].caller)))
       /\ (req'[r].pc = "rejected" /\ req'[r].reason = "available" /\ req'[r] # req[r]) =>
            (req[r].pc = "idle" /\ req'[r].eff = NoEff /\ req'[r].sig = NoSig /\ req'[r].txid = 0 /\ UNCHANGED <<balance, txs, chainVars, events>>)
       /\ (req[r].pc = "rejected" /\ req[r].kind = "purchase") => (req'[r].pc = "idle" /\ UNCHANGED <<balance, txs, chainVars, events>>)]_vars

\* C14, the case: alice, who can pay for it, asks for the product that is not
\* linked to her community, and is rejected for that.
UnlinkedProductRejected == \E r \in Reqs : req[r].kind = "purchase" /\ req[r].pc = "rejected" /\ req[r].reason = "available" /\ req[r].caller = "alice" /\ balance["alice"] >= Price("p2") /\ tokenAddress["c1"] # 0

\* Connection s has received authenticated, according to inbox I.
Authenticated(s, I) == [sock |-> s, event |-> "authenticated", about |-> "none"] \in I

\* The authenticate message that connection q handles names a community that
\* is not the one of the session's account.
ClaimsOtherCommunity(q) == q.msg.communityId # "none" /\ q.msg.communityId # CommunityOf(q.session)

BalanceUpdatesStayPrivate ==
  /\ \A s \in Socks, u \in Users : UserRoom(u) \in sockets[s].rooms => sockets[s].session = u
  /\ \A m \in inbox : m.event = "balance-update" => sockets[m.sock].session = m.about

\* C16, the case: a balance-update about alice has reached the connection of
\* alice's session and not the connection of coord's session, which is open
\* and in its rooms and has received its own.
OnlyAliceGotHers == \E s \in Socks, q \in Socks : sockets[s].session = "alice" /\ sockets[q].session = "coord" /\ sockets[q].state = "open" /\ UserRoom("coord") \in sockets[q].rooms /\ [sock |-> s, event |-> "balance-update", about |-> "alice"] \in inbox /\ [sock |-> q, event |-> "balance-update", about |-> "alice"] \notin inbox /\ [sock |-> q, event |-> "balance-update", about |-> "coord"] \in inbox

\* C17: for every private key k, every initialization vector and every
\* derived key, decrypting under that key the record that encrypting k gives
\* returns exactly k; and a handler that decrypts a stored record nobody has
\* changed, under the key it was encrypted with, gets k.
DecryptInvertsEncrypt ==
  /\ vault.stage # "none" => \A key \in Keys, iv \in Ivs : decryptPrivateKey(encryptPrivateKey(vault.k, iv, key), key) = [ok |-> TRUE, value |-> vault.k]
  /\ (vault.stage = "decrypted" /\ vault.tampers = 0 /\ vault.key = MasterKey) => vault.out = [ok |-> TRUE, value |-> vault.k]

\* C17, the case: a key of the greatest length with two different characters
\* came back from its stored record.
LongKeyCameBack == vault.stage = "decrypted" /\ vault.tampers = 0 /\ vault.key = MasterKey /\ Len(vault.k) = MaxKeyLen /\ vault.k[1] # vault.k[MaxKeyLen] /\ vault.out.ok /\ vault.out.value = vault.k /\ vault.rec # vault.k

\* The fields of the stored record, and the bytes that were stored.
StoredParts == split(vault.rec)

StoredCipher == Cipher(MasterKey, vault.iv, utf8Encode(vault.k))

\* The stored record is not three fields, or its iv, tag or ciphertext is
\* not the one that was stored, or the key is another one.
RecordChanged ==
  \/ Len(StoredParts) # 3
  \/ fromHex(StoredParts[1]) # vault.iv
  \/ fromHex(StoredParts[2]) # AuthTag(MasterKey, vault.iv, StoredCipher)
  \/ fromHex(StoredParts[3]) # StoredCipher
  \/ vault.key # MasterKey

\* C18: decrypting a record that is not three colon-delimited fields, or
\* whose iv, tag or ciphertext was changed, or under a different key, throws
\* and returns no value; what decryptPrivateKey returns is never a part of
\* the private key or another string.
ChangedRecordRejected == vault.stage = "decrypted" => ((RecordChanged => vault.out = CryptoError) /\ (vault.out.ok => vault.out.value = vault.k) /\ (~vault.out.ok => vault.out.value = <<>>))

\* C19: in every state that distribute, burn, burn-all, transfer and purchase
\* requests can reach, in any interleaving, the cached balance of every
\* account is at least 0.
BalancesNonNegative == \A u \in Users : balance[u] >= 0

\* The wallets of account u that are marked default.
DefaultWallets(u) == {i \in getWalletsByUser(walletRows, u) : walletRows[i].isDefault = 1}

\* C20: whenever no wallet request is in flight, every account that owns at
\* least one wallet has exactly one wallet marked default.
ExactlyOneDefault == (\A w \in WReqs : WIdle(w)) => \A u \in Users : getWalletsByUser(walletRows, u) # {} => Cardinality(DefaultWallets(u)) = 1

\* C21: between two clearings of a community's token address the factory
\* deploys at most one token for the community, also when create-token
\* requests of the community interleave.
OneTokenPerReset == \A c \in Communities : tokenHistory[c].created <= 1

\* Create-token request q holds the result of a confirmed factory call whose
\* receipt had no creation event.
TokenMissing(q) == q.kind = "createtoken" /\ q.pc = "store" /\ q.hash = 0

\* C26: a create-token request whose confirmed factory call carried no
\* ReteTokenCreated event got a null token address; it leaves the
\* community's token address null and is answered with an error.
MissingEventIsFailure == [][\A r \in Reqs : (TokenMissing(req[r]) /\ req'[r] # req[r]) => (tokenAddress' = tokenAddress /\ req'[r].pc = "failed")]_vars

\* The addresses some community had when its chain profile was switched.
RetiredAddresses == UNION {tokenHistory[c].retired : c \in Communities}

\* C27: the step that switches a community's chain profile clears its token
\* address; a settlement request that arrives while the address is null is
\* rejected; and no chain write of a settlement uses an address that a
\* switch has retired.
SwitchRetiresAddress ==
  [][/\ \A c \in Communities : tokenHistory'[c].retired # tokenHistory[c].retired => tokenAddress'[c] = 0
     /\ \A r \in Reqs : (req[r].pc = "idle" /\ req'[r].kind \in SettlementKinds /\ TokenOf(CommunityOfRequest(req'[r])) = 0) => req'[r].pc = "rejected"
     /\ Len(chainLog') > Len(chainLog) => chainLog'[Len(chainLog')].token \notin RetiredAddresses]_vars

\* Request q holds the hash of a confirmed chain write for its token and
\* for the account it settles with.
ChainConfirmed(q) == q.hash \in 1..Len(chainLog) /\ chainLog[q.hash].token = q.tok /\ chainLog[q.hash].party = q.target

\* C22: every step that changes a cached balance is the step of a request
\* that holds the hash of a confirmed chain write of the same settlement.
BalanceFollowsChainWrite == [][balance' # balance => \E r \in Reqs : req'[r] # req[r] /\ ChainConfirmed(req[r])]_vars

\* The provider accounts.
Providers == {u \in Users : Role(u) = "provider"}

\* C23: no step of a purchase, a transfer or a burn-all changes the cached
\* balance of a provider account.
ProviderBalanceUntouched == [][\A r \in Reqs : (req'[r] # req[r] /\ req[r].kind \in {"purchase", "transfer", "burnall"}) => \A u \in Providers : balance'[u] = balance[u]]_vars

\* A batch request.
Batches == {r \in Reqs : req[r].kind \in {"distribute", "burnall"}}

\* Request r is the only request the server has received.
Alone(r) == started = 1 /\ req[r].pc # "idle"

\* The nonces of sequence s are all different.
Distinct(s) == \A i \in DOMAIN s, j \in DOMAIN s : s[i] = s[j] => i = j

\* The items of request q whose chain call was confirmed or has failed.
Submitted(q) == Len(q.results) + Cardinality({i \in DOMAIN q.errors : q.errors[i].reason = "chain"})

\* C24 as stated: the signature that a batch that is alone holds carries the
\* current nonce of the contract, and the batch never signs two items with
\* the same nonce.
BatchNoncesAllDifferent == \A r \in Batches : Alone(r) => (Distinct(req[r].nonces) /\ (req[r].sig # NoSig => req[r].sig.nonce = CounterOf(req[r].sig)))

\* C24: a batch signs the next item only when it holds no signature, every
\* item it signed before having been confirmed or having failed; the
\* signature of a batch that is alone carries the current nonce of the
\* contract, so its submission cannot be refused for its nonce; and such a
\* batch signs a nonce again only for the item after one whose chain call
\* failed.
BatchSignsInTurn ==
  [][\A r \in Batches :
       /\ Steps(r, req[r].kind, "sign", "submit") => (req[r].sig = NoSig /\ Len(req[r].nonces) = Submitted(req[r]) /\ req'[r].sig.nonce = CounterOf(req'[r].sig))
       /\ (Alone(r) /\ req[r].pc = "submit") => req[r].sig.nonce = CounterOf(req[r].sig)
       /\ (Alone(r) /\ Steps(r, req[r].kind, "sign", "submit") /\ req[r].nonces # <<>> /\ req'[r].sig.nonce = req[r].nonces[Len(req[r].nonces)]) => (\E i \in DOMAIN req[r].errors : req[r].errors[i].reason = "chain")]_vars

\* C24, the case: a distribute batch that is alone has signed its second item
\* with the nonce of the first, whose mint failed.
NonceSignedAgainAfterFailure == \E r \in Reqs : req[r].kind = "distribute" /\ Alone(r) /\ Len(req[r].nonces) = 2 /\ req[r].nonces[1] = req[r].nonces[2] /\ Len(req[r].errors) = 1 /\ req[r].pc = "submit"

\* The value derived from the history for provider p in community c.
Derived(p, c) == PurchaseSum(txs, c, p) - ProviderBurnSum(txs, c, p)

\* What a list of balance entries says about account u: 0 when u is not listed.
Listed(list, u) == IF \E i \in DOMAIN list : list[i].id = u THEN (CHOOSE b \in {list[i] : i \in DOMAIN list} : b.id = u).tokenBalance ELSE 0

\* C25: getProviderBalancesByCommunity(p) lists community c exactly when the
\* purchases of c for p's products minus the burns of c from p are positive,
\* with that value as the balance, and getCommunityBalances(c) reports the
\* same value for p.
ProviderBalanceIsDerived ==
  \A p \in Providers, c \in Communities :
    LET entries == {e \in getProviderBalancesByCommunity(txs, p) : e.communityId = c}
    IN /\ Cardinality(entries) <= 1
       /\ \A e \in getProviderBalancesByCommunity(txs, p) : e.communityId \in Communities
       /\ entries # {} <=> Derived(p, c) > 0
       /\ \A e \in entries : e.balance = Derived(p, c) /\ Listed(getCommunityBalances(balance, txs, c), p) = e.balance
       /\ entries = {} => Listed(getCommunityBalances(balance, txs, c), p) = 0

\* C25, the case: the provider has two sales and a burn in the community;
\* the balance listed is what is left.
SalesLessBurnListed == \E e \in getProviderBalancesByCommunity(txs, "prov") : e.communityId = "c1" /\ e.salesCount = 2 /\ e.balance = MaxAmount /\ (\E i \in DOMAIN txs : txs[i].type = "burn" /\ txs[i].from = "prov" /\ txs[i].community = "c1" /\ txs[i].amount = MaxAmount)

\* The amount that the transferFrom of request q moved on the chain.
Moved(q) == chainLog[q.hash].amount

\* C28: the debit of a transfer or a purchase takes from the sender's cached
\* balance, and its credit adds to the recipient's, the amount that its
\* transferFrom moved on the chain, also when two requests of one owner
\* interleave.
CacheMovesWhatChainMoved ==
  [][\A r \in Reqs : req[r].kind \in {"transfer", "purchase"} =>
       /\ (req[r].pc = "debit" /\ req'[r].pc = "credit") => balance' = [balance EXCEPT ![req[r].caller] = @ - Moved(req[r])]
       /\ (req[r].pc = "credit" /\ req'[r].pc \in {"record", "complete"}) => balance' = [balance EXCEPT ![req[r].target] = @ + Moved(req[r])]]_vars

\* The holders whose chain burn failed in burn-all request q.
FailedHolders(q) == {q.errors[i].email : i \in {k \in DOMAIN q.errors : q.errors[k].reason = "chain"}}

\* C29: when a burn-all request that ran alone has ended, every holder whose
\* chain burn failed is reported by getCommunityBalances with the balance it
\* had when the request read the balances.
FailedBurnKeepsBalance ==
  \A r \in Reqs : (req[r].kind = "burnall" /\ req[r].pc = "done") =>
    \A u \in FailedHolders(req[r]) : Listed(getCommunityBalances(balance, txs, CommunityOf(req[r].caller)), u) = Listed(req[r].snap, u)

\* The ids the pending list of the client holds, in its order.
PendingIds == [i \in DOMAIN client.pendingTransactions |-> client.pendingTransactions[i].id]

\* The pending list holds no transaction twice.
PendingHoldsNoneTwice == \A i, j \in DOMAIN PendingIds : PendingIds[i] = PendingIds[j] => i = j

\* C30: a transaction whose completed event the client has received is not
\* in its pending list, and the pending list holds no transaction twice.
CompletedLeavesPending ==
  /\ \A i \in DOMAIN PendingIds : PendingIds[i] \notin client.completed
  /\ PendingHoldsNoneTwice

====
